---- MODULE Spec2Model ----
(***************************************************************************)
(* Model of the scheduling workflow of src/server/simple_scheduler.py:     *)
(* SimpleTimeScheduler.get_scheduling_context, create_events and           *)
(* schedule_complete, run against a calendar session and a language model  *)
(* whose answers are chosen by the environment; of the HTTP server of      *)
(* src/server/server.py and src/server/server_http.py, which borrows one   *)
(* calendar session for all its requests; and of the web client of         *)
(* src/app/web_client.py, which keeps the conversation.  Each of the three *)
(* has its own specification over the one tuple of variables.              *)
(*                                                                         *)
(* Conventions.  Times are counted in whole hours.  A Python str holding   *)
(* a time is a record [kind, wall, zone]; a datetime is a record           *)
(* [wall, tz].  A Python message string is a sequence of text fragments,   *)
(* so that "the error contains the text t" can be stated.  A dict returned *)
(* to the caller is a record with exactly the keys the code puts in it.    *)
(***************************************************************************)
EXTENDS Integers, Sequences, FiniteSets, TLC

\* ------------------------------------------------------------------ bounds
\* Largest number of raw bookings in one get_calendar_events answer.
MaxBookings == 2
\* Largest number of elements in the array the language model answers with,
\* and largest number of events handed directly to create_events.
MaxProposals == 2
\* Largest number of requests the server, or the web client, receives.
MaxRequests == 2
\* The max_context_words the web client is constructed with.
max_context_words == 6

\* ------------------------------------------------------- sequences, helpers
RECURSIVE SeqsUpTo(_, _)
SeqsUpTo(S, n) ==
    IF n = 0 THEN {<<>>}
    ELSE LET shorter == SeqsUpTo(S, n - 1)
         IN  shorter \cup {Append(s, x) : s \in {t \in shorter : Len(t) = n - 1}, x \in S}

Contains(msg, text) == \E k \in 1..Len(msg) : msg[k] = text

\* ------------------------------------------------------------------- times
\* Offset of the reference zone America/New_York from UTC (standard time).
EasternOffset == 5

NoneStr  == [kind |-> "none",  wall |-> 0, zone |-> "none"]
EmptyStr == [kind |-> "empty", wall |-> 0, zone |-> "none"]
BadStr   == [kind |-> "bad",   wall |-> 0, zone |-> "none"]
\* A string of digits too long for a date: the parser raises OverflowError.
OverflowStr == [kind |-> "overflow", wall |-> 0, zone |-> "none"]
IsoStr(w, z) == [kind |-> "iso", wall |-> w, zone |-> z]

\* Python truthiness of an optional str: None and "" are falsy.
Truthy(s) == s.kind \notin {"none", "empty"}

NoDt == [wall |-> 0, tz |-> "null"]

\* dateutil.parser.parse: a datetime, naive when the text names no zone, or an
\* exception (ParserError for unparseable text, OverflowError for a number out
\* of range, TypeError for a non-string).
ParserParse(s) ==
    IF s.kind = "iso"
    THEN [ok |-> TRUE, exc |-> "",
          dt |-> [wall |-> s.wall,
                  tz |-> CASE s.zone = "none"   -> "naive"
                           [] s.zone = "Z"      -> "utc"
                           [] s.zone = "-05:00" -> "eastern"]]
    ELSE [ok |-> FALSE, dt |-> NoDt,
          exc |-> CASE s.kind = "none"     -> "TypeError"
                    [] s.kind = "overflow" -> "OverflowError"
                    [] OTHER               -> "ParserError"]

\* The reference zone put on the value whatever zone it had.
to_eastern_replace(dt) == [wall |-> dt.wall, tz |-> "eastern"]

\* EASTERN_TZ.localize(dt) for a naive value, dt.astimezone(EASTERN_TZ) otherwise.
to_eastern(dt) ==
    CASE dt.tz = "naive"   -> [wall |-> dt.wall, tz |-> "eastern"]
      [] dt.tz = "utc"     -> [wall |-> dt.wall - EasternOffset, tz |-> "eastern"]
      [] dt.tz = "eastern" -> dt

\* What _parse_time leaves behind when an exception passes its handler.
RaisedDt == [wall |-> 0, tz |-> "raised"]

\* A handler for the parser's own error only.
ParseExceptParserError(kind) == kind = "ParserError"

\* Line 47: the bare "except:" takes every exception.
ParseExcept(kind) == TRUE

\* _parse_time: None for a falsy argument and for anything the parser rejects.
parse_time(time_str) ==
    IF ~Truthy(time_str) THEN NoDt
    ELSE IF ParserParse(time_str).ok THEN to_eastern(ParserParse(time_str).dt)
    ELSE IF ParseExcept(ParserParse(time_str).exc) THEN NoDt
    ELSE RaisedDt

\* The wall-clock fields written with the UTC suffix.
isoformat_utc_suffix(dt) == IsoStr(dt.wall, "Z")

\* datetime.isoformat() of a zoned value keeps the zone as an offset.
isoformat(dt) ==
    IsoStr(dt.wall, CASE dt.tz = "eastern" -> "-05:00"
                      [] dt.tz = "utc"     -> "Z"
                      [] OTHER             -> "none")

\* datetime.strftime('%Y-%m-%d %H:%M') drops the zone.
strftime(dt) == IsoStr(dt.wall, "none")


\* ------------------------------------------------- the calendar session
\* Raw bookings the calendar can answer with, by shape.
BookingKinds == {"timed", "allday", "nostart", "badtime"}

NoInfo == [dateTime |-> NoneStr, date |-> NoneStr]

\* The dict of a raw booking: event.get('summary'), event.get('start', {}),
\* event.get('end', {}) as the listing tool delivers them.
RawEvent(kind) ==
    CASE kind = "timed"   -> [hasSummary |-> TRUE, summary |-> "Standup",
                              start |-> [dateTime |-> IsoStr(14, "Z"), date |-> NoneStr],
                              end   |-> [dateTime |-> IsoStr(15, "Z"), date |-> NoneStr]]
      [] kind = "allday"  -> [hasSummary |-> FALSE, summary |-> "",
                              start |-> [dateTime |-> NoneStr, date |-> IsoStr(0, "none")],
                              end   |-> [dateTime |-> NoneStr, date |-> IsoStr(24, "none")]]
      [] kind = "nostart" -> [hasSummary |-> TRUE, summary |-> "Draft",
                              start |-> NoInfo,
                              end   |-> [dateTime |-> IsoStr(15, "Z"), date |-> NoneStr]]
      [] kind = "badtime" -> [hasSummary |-> TRUE, summary |-> "Broken",
                              start |-> [dateTime |-> BadStr, date |-> NoneStr],
                              end   |-> [dateTime |-> IsoStr(15, "Z"), date |-> NoneStr]]

\* One content item of a tool answer: hasText is hasattr(content, 'text');
\* json is what json.loads(content.text) gives ("invalid" when it raises).
TextItem(json, evs) == [hasText |-> TRUE, json |-> json, events |-> evs]
OtherItem == [hasText |-> FALSE, json |-> "invalid", events |-> <<>>]

\* Answers of session.list_tools(): it raises, its result has no 'tools'
\* attribute, or it advertises a list with or without the listing tool.
ListToolsAnswers == {"raises", "no_tools_attr", "without_listing", "with_listing"}

\* Answers of session.call_tool('get_calendar_events', ...).
ListingAnswers ==
    {[raises |-> TRUE, content |-> <<>>]}
    \cup {[raises |-> FALSE, content |-> c] :
            c \in {<<>>, <<OtherItem>>,
                   <<TextItem("invalid", <<>>)>>,
                   <<TextItem("scalar", <<>>)>>,
                   <<TextItem("dict_no_items", <<>>)>>,
                   <<TextItem("invalid", <<>>), TextItem("list", <<"timed">>)>>}}
    \cup {[raises |-> FALSE, content |-> <<TextItem("list", evs)>>] :
            evs \in SeqsUpTo(BookingKinds, MaxBookings)}
    \cup {[raises |-> FALSE, content |-> <<TextItem("dict_items", evs)>>] :
            evs \in SeqsUpTo(BookingKinds, 1)}

\* Answers of session.call_tool('create_calendar_event', ...): the booking is
\* stored, or the answer has isError set (with or without a text item), or the
\* call raises.
CreateAnswers ==
    {[raises |-> FALSE, isError |-> FALSE, content |-> <<>>],
     [raises |-> FALSE, isError |-> TRUE,  content |-> <<>>],
     [raises |-> FALSE, isError |-> TRUE,
      content |-> <<[hasText |-> FALSE, text |-> ""],
                    [hasText |-> TRUE, text |-> "quota exceeded"],
                    [hasText |-> TRUE, text |-> "try again later"]>>],
     [raises |-> TRUE,  isError |-> FALSE, content |-> <<>>]}

\* Text of a session exception, str(e).
SessionErrorText == "session closed"

Call(tool, summary, st, et) ==
    [tool |-> tool, summary |-> summary, start_time |-> st, end_time |-> et]

\* ------------------------------------------- get_scheduling_context, pure
\* Lines 75-83: the bookings of every text item that parses, concatenated.
RECURSIVE CollectExisting(_)
CollectExisting(content) ==
    IF content = <<>> THEN <<>>
    ELSE LET item == Head(content)
             raw_events ==
                 IF ~item.hasText THEN <<>>
                 ELSE CASE item.json = "list"       -> item.events
                        [] item.json = "dict_items" -> item.events
                        [] OTHER                    -> <<>>
         IN  raw_events \o CollectExisting(Tail(content))

\* A lookup of the timed field alone.
PyOrFirst(x, y) == x

\* x or y on two optional strings.
PyOr(x, y) == IF Truthy(x) THEN x ELSE y

\* Lines 90-107 for one booking: <<formatted>> or <<>> when it is skipped.
FormatEvent(kind) ==
    LET event == RawEvent(kind)
        start_dt_str == PyOr(event.start.dateTime, event.start.date)
        end_dt_str == PyOr(event.end.dateTime, event.end.date)
    IN  IF Truthy(start_dt_str) /\ Truthy(end_dt_str)
        THEN IF ParserParse(start_dt_str).ok /\ ParserParse(end_dt_str).ok
             THEN <<[summary |-> IF event.hasSummary THEN event.summary ELSE "Event",
                     start_time |-> strftime(to_eastern(ParserParse(start_dt_str).dt)),
                     end_time |-> strftime(to_eastern(ParserParse(end_dt_str).dt))]>>
             ELSE <<>>
        ELSE <<>>

RECURSIVE FormatEvents(_)
FormatEvents(existing) ==
    IF existing = <<>> THEN <<>>
    ELSE FormatEvent(Head(existing)) \o FormatEvents(Tail(existing))

InvalidTimeResult == [success |-> FALSE, error |-> <<"Invalid time format">>]

ToolMissingResult ==
    [success |-> FALSE, error |-> <<"get_calendar_events tool not available in MCP session">>]

ContextExceptResult(text) ==
    [success |-> FALSE, error |-> <<"Failed to get context: ", text>>]

\* A fetcher that reports an empty calendar as a failure.
ContextSuccessNeedsEvents(start_dt, end_dt, existing, formatted) ==
    IF formatted = <<>>
    THEN [success |-> FALSE, error |-> <<"No events found">>]
    ELSE [success |-> TRUE, existing_events |-> formatted,
          time_range |-> [start |-> strftime(start_dt), end |-> strftime(end_dt)],
          calendar_access_working |-> TRUE]

\* A success whose access flag asks for at least one raw booking.
ContextSuccessAccessByCount(start_dt, end_dt, existing, formatted) ==
    [success |-> TRUE, existing_events |-> formatted,
     time_range |-> [start |-> strftime(start_dt), end |-> strftime(end_dt)],
     calendar_access_working |-> Len(existing) > 0]

\* Lines 110-114.
ContextSuccess(start_dt, end_dt, existing, formatted) ==
    [success |-> TRUE, existing_events |-> formatted,
     time_range |-> [start |-> strftime(start_dt), end |-> strftime(end_dt)],
     calendar_access_working |-> (Len(existing) > 0 \/ Len(formatted) >= 0)]

\* ------------------------------------------------- the language model
\* Elements the model can put in its array, by name.
ElemNames == {"ev1", "ev2", "nokey", "badev", "str"}

\* The JSON value behind an element name.  "nokey" is an object without
\* end_time, "badev" has all three keys but an unparseable start_time, "str"
\* is a JSON string.
Elem(name) ==
    CASE name = "ev1"   -> [isDict |-> TRUE, keys |-> {"summary", "start_time", "end_time"},
                            summary |-> "Focus block",
                            start_time |-> IsoStr(9, "none"), end_time |-> IsoStr(10, "none")]
      [] name = "ev2"   -> [isDict |-> TRUE, keys |-> {"summary", "start_time", "end_time", "note"},
                            summary |-> "Review",
                            start_time |-> IsoStr(23, "Z"), end_time |-> IsoStr(24, "Z")]
      [] name = "nokey" -> [isDict |-> TRUE, keys |-> {"summary", "start_time"},
                            summary |-> "Half", start_time |-> IsoStr(11, "none"),
                            end_time |-> NoneStr]
      [] name = "badev" -> [isDict |-> TRUE, keys |-> {"summary", "start_time", "end_time"},
                            summary |-> "Vague",
                            start_time |-> BadStr, end_time |-> IsoStr(12, "none")]
      [] name = "str"   -> [isDict |-> FALSE, keys |-> {},
                            summary |-> "", start_time |-> NoneStr, end_time |-> NoneStr]

\* A response text is a sequence of tokens: prose words, the code fences
\* "<fence json>" (three backticks and json) and "<fence>" (three backticks),
\* the brackets, element names and the scalar "7".  No text of the
\* sets below nests one array in another.
JsonValues == ElemNames \cup {"7"}

Arrays == {<<"[">> \o es \o <<"]">> : es \in SeqsUpTo(ElemNames, MaxProposals)}

\* The arrays that are also answered with prose or fences around them.
WrappedArrays ==
    {<<"[">> \o es \o <<"]">> : es \in SeqsUpTo(ElemNames, 1) \cup {<<"nokey", "ev2">>}}

Texts ==
    Arrays
    \cup {<<"prose">> \o a \o <<"prose">> : a \in WrappedArrays}
    \cup {<<"prose", "<fence json>">> \o a \o <<"<fence>", "prose">> : a \in WrappedArrays}
    \cup {<<"<fence>">> \o a \o <<"<fence>">> : a \in WrappedArrays}
    \cup {<<>>, <<"prose">>, <<"7">>, <<"ev1">>, <<"str">>, <<"[", "7", "]">>,
          <<"]", "prose", "[">>, <<"[", "ev1">>, <<"ev1", "]">>,
          <<"[", "ev1", "]", "prose", "[", "ev2", "]">>,
          <<"<fence json>", "[", "ev1", "]">>,
          <<"<fence>", "prose", "<fence>", "[", "ev1", "]">>,
          <<"[", "prose", "]", "prose", "[", "ev1", "]">>,
          <<"[", "ev1", "]", "<fence>", "prose">>,
          <<"<fence>", "[", "ev1", "]", "<fence json>", "prose">>,
          <<"<fence>", "prose", "<fence json>", "[", "ev2", "]", "<fence>">>}

\* Answers of gemini_client.models.generate_content: it raises, or its
\* response has text None, or a text.
LLMAnswers ==
    {[raises |-> TRUE, hasText |-> FALSE, text |-> <<>>],
     [raises |-> FALSE, hasText |-> FALSE, text |-> <<>>]}
    \cup {[raises |-> FALSE, hasText |-> TRUE, text |-> t] : t \in Texts}

\* --------------------------------------------------- str.find, str.split
\* Index of the first / last token of s that lies in T, 0 when there is none
\* (where Python gives -1).
Find(s, T) ==
    IF \E k \in 1..Len(s) : s[k] \in T
    THEN CHOOSE k \in 1..Len(s) : s[k] \in T /\ \A j \in 1..(k - 1) : s[j] \notin T
    ELSE 0

RFind(s, T) ==
    IF \E k \in 1..Len(s) : s[k] \in T
    THEN CHOOSE k \in 1..Len(s) : s[k] \in T /\ \A j \in (k + 1)..Len(s) : s[j] \notin T
    ELSE 0

\* s.split(sep)[1].split(fence)[0]: what follows the first occurrence of sep,
\* up to the next fence.  The text of the json fence contains the plain fence,
\* so either fence ends the part.
Fences == {"<fence json>", "<fence>"}

Fenced(s, sep) ==
    LET rest == SubSeq(s, Find(s, {sep}) + 1, Len(s))
        stop == Find(rest, Fences)
    IN  IF stop = 0 THEN rest ELSE SubSeq(rest, 1, stop - 1)

\* Lines 224-228.
Cleaned(gemini_response) ==
    IF Find(gemini_response, {"<fence json>"}) # 0 THEN Fenced(gemini_response, "<fence json>")
    ELSE IF Find(gemini_response, {"<fence>"}) # 0 THEN Fenced(gemini_response, "<fence>")
    ELSE gemini_response

\* json.loads of a token sequence: one JSON value, or an array of values.
JsonLoads(s) ==
    IF Len(s) = 1 /\ s[1] \in JsonValues
    THEN [ok |-> TRUE, isArray |-> FALSE, value |-> s]
    ELSE IF Len(s) >= 2 /\ s[1] = "[" /\ s[Len(s)] = "]"
            /\ \A k \in 2..(Len(s) - 1) : s[k] \in JsonValues
    THEN [ok |-> TRUE, isArray |-> TRUE, value |-> SubSeq(s, 2, Len(s) - 1)]
    ELSE [ok |-> FALSE, isArray |-> FALSE, value |-> <<>>]

\* A parse of the whole cleaned response, without the search for brackets.
ParseResponseWhole(gemini_response) == JsonLoads(Cleaned(gemini_response))

\* Lines 231-239.
ParseResponse(gemini_response) ==
    LET cleaned_response == Cleaned(gemini_response)
        start_bracket == Find(cleaned_response, {"["})
        end_bracket == RFind(cleaned_response, {"]"})
    IN  IF start_bracket # 0 /\ end_bracket # 0
        THEN JsonLoads(SubSeq(cleaned_response, start_bracket, end_bracket))
        ELSE JsonLoads(cleaned_response)

\* A check that asks for an object and not for its keys.
IsValidEventAnyObject(name) == name \in ElemNames /\ Elem(name).isDict

\* Line 244.
IsValidEvent(name) ==
    /\ name \in ElemNames
    /\ Elem(name).isDict
    /\ {"summary", "start_time", "end_time"} \subseteq Elem(name).keys

\* Lines 242-247.
RECURSIVE ValidEvents(_)
ValidEvents(events_to_create) ==
    IF events_to_create = <<>> THEN <<>>
    ELSE (IF IsValidEvent(Head(events_to_create)) THEN <<Head(events_to_create)>> ELSE <<>>)
         \o ValidEvents(Tail(events_to_create))

\* ------------------------------------------------------------- the state
VARIABLES
    entry,              \* the method the caller invoked
    gemini_client,      \* module global: "client" or "None"
    start_time,         \* arguments of the call
    end_time,
    events_to_schedule, \* "list" or "None"
    pc,                 \* position of the running call
    sessionLog,         \* every call issued on the session, in order
    pending,            \* create calls issued and not yet answered
    answers,            \* the answers the create calls received, in order
    tools_answer,       \* tools_result of the fetcher, "" before the call
    listing_answer,     \* events_result of the fetcher; both are locals of
                        \* the fetcher, kept here until the model is called
    llmCalls,           \* number of generate_content calls made
    calendar,           \* bookings the calendar stored during the call
    start_dt,           \* locals of get_scheduling_context
    end_dt,
    context_result,     \* locals of schedule_complete
    prompt,
    gemini_response,
    events_to_create,
    creation_result,
    events,             \* parameter and locals of create_events
    idx,
    created,
    result,             \* the value returned to the caller
    escaped             \* an exception left the invoked method

\* The HTTP server of server_http.py and server.py.
VARIABLES
    phase,              \* position of lifespan: "init", "serving", "stopped",
                        \* "create_failed", "failed"
    session_manager,    \* _session_manager: its context fields, or not set
    mcp_session,        \* the global of server_http.py: "None" or a session
    lifeLog,            \* what was done to the contexts of the session, in order
    http,               \* the requests of POST /tools/call, by slot
    httpLog             \* every call made on a session by a request

\* The web client of web_client.py.
VARIABLES
    conversation_history,   \* the words of self.conversation_history
    interaction_count,
    web                     \* the calls of handle_user_request, by slot

serverVars == <<phase, session_manager, mcp_session, lifeLog, http, httpLog>>

clientVars == <<conversation_history, interaction_count, web>>

hostVars == <<serverVars, clientVars>>

schedulerVars ==
    <<entry, gemini_client, start_time, end_time, events_to_schedule, pc,
      sessionLog, pending, answers, tools_answer, listing_answer, llmCalls,
      calendar, start_dt, end_dt, context_result, prompt, gemini_response, events_to_create,
      creation_result, events, idx, created, result, escaped>>

vars == <<schedulerVars, hostVars>>

\* A local that holds nothing yet.
Unset == [unset |-> TRUE]

\* Requests that can be in progress at a time.
Reqs == 1..MaxRequests

\* _session_manager before create_session and after cleanup_session.
NoManager == [set |-> FALSE, client_context |-> "None", session_context |-> "None",
              session |-> "None", read |-> "None", write |-> "None"]

\* A request slot of the server nothing has arrived in.
NoRequest ==
    [pc |-> "idle", endpoint |-> "", tool_name |-> "", arguments |-> "dict",
     session |-> "None", position |-> 0, tools_result |-> [kind |-> "unset"],
     result |-> [kind |-> "unset"], response |-> [status |-> 0]]

\* The server before its process starts.
ServerAtRest ==
    /\ phase = "init"
    /\ session_manager = NoManager
    /\ mcp_session = "None"
    /\ lifeLog = <<>>
    /\ http = [r \in Reqs |-> NoRequest]
    /\ httpLog = {}

\* A slot of the web client no call has started in.
NoCall ==
    [pc |-> "idle", user_input |-> <<>>, final_response_text |-> <<>>,
     response_data |-> "unset", number |-> 0]

\* InteractiveMCPClient.__init__, lines 18-19.
ClientAtRest ==
    /\ conversation_history = <<>>
    /\ interaction_count = 0
    /\ web = [r \in Reqs |-> NoCall]

NoPrompt == [built |-> FALSE, window |-> <<>>, existing |-> <<>>]

\* Time strings the caller can pass as window bounds.
WindowStarts == {NoneStr, BadStr, OverflowStr, IsoStr(9, "none"), IsoStr(14, "Z")}
WindowEnds == {EmptyStr, IsoStr(8, "none"), IsoStr(17, "none")}

Entries == {"schedule_complete", "get_scheduling_context", "create_events"}

EntryPc(e) ==
    CASE e = "schedule_complete"      -> "sc_enter"
      [] e = "get_scheduling_context" -> "ctx_enter"
      [] e = "create_events"          -> "ce_loop"

Init ==
    /\ entry \in Entries
    /\ gemini_client \in {"client", "None"}
    /\ start_time \in WindowStarts
    /\ end_time \in WindowEnds
    /\ events_to_schedule \in {"list", "None"}
    /\ events \in SeqsUpTo(ElemNames, MaxProposals)
    \* arguments the invoked method does not take are fixed
    /\ entry = "create_events" =>
          /\ start_time = NoneStr /\ end_time = EmptyStr
          /\ events_to_schedule = "list" /\ gemini_client = "None"
    /\ entry = "get_scheduling_context" =>
          events_to_schedule = "list" /\ gemini_client = "None"
    /\ entry # "create_events" => events = <<>>
    /\ pc = EntryPc(entry)
    /\ sessionLog = <<>>
    /\ pending = <<>>
    /\ answers = <<>>
    /\ tools_answer = ""
    /\ listing_answer = Unset
    /\ llmCalls = 0
    /\ calendar = <<>>
    /\ start_dt = NoDt
    /\ end_dt = NoDt
    /\ context_result = Unset
    /\ prompt = NoPrompt
    /\ gemini_response = <<>>
    /\ events_to_create = <<>>
    /\ creation_result = Unset
    /\ idx = 1
    /\ created = <<>>
    /\ result = Unset
    /\ escaped = FALSE
    /\ ServerAtRest
    /\ ClientAtRest

\* The scheduler while no method of it is followed.
SchedulerAtRest ==
    /\ entry = "schedule_complete"
    /\ gemini_client = "client"
    /\ start_time = NoneStr /\ end_time = EmptyStr
    /\ events_to_schedule = "list"
    /\ events = <<>>
    /\ pc = "idle"
    /\ sessionLog = <<>> /\ pending = <<>> /\ answers = <<>>
    /\ tools_answer = "" /\ listing_answer = Unset
    /\ llmCalls = 0 /\ calendar = <<>>
    /\ start_dt = NoDt /\ end_dt = NoDt
    /\ context_result = Unset /\ prompt = NoPrompt
    /\ gemini_response = <<>> /\ events_to_create = <<>>
    /\ creation_result = Unset
    /\ idx = 1 /\ created = <<>>
    /\ result = Unset /\ escaped = FALSE

\* ---------------------------------------------------------- exceptions
ExceptionKinds ==
    {"Exception", "TypeError", "AttributeError", "KeyError", "ParserError", "OverflowError",
     "JSONDecodeError"}

\* Handlers that take JSON errors only.
ExceptJsonOnly(kind) == kind = "JSONDecodeError"

\* "except Exception" (lines 115, 161 and 278) handles every kind above.
ExceptException(kind) == kind \in ExceptionKinds

\* An exception no handler took leaves the invoked method.
Escapes == escaped' = TRUE /\ pc' = "done"

\* The invoked method returns r to the caller.
Return(r) == result' = r /\ pc' = "done"

\* ------------------------------------------------ get_scheduling_context
\* The context fetcher hands r back: to the caller, or to schedule_complete.
ContextReturns(r) ==
    IF entry = "get_scheduling_context"
    THEN Return(r) /\ UNCHANGED context_result
    ELSE context_result' = r /\ pc' = "sc_context" /\ UNCHANGED result

\* Lines 115-116: the except clause of get_scheduling_context.
ContextRaises(kind, text) ==
    IF ExceptException(kind)
    THEN ContextReturns(ContextExceptResult(text)) /\ UNCHANGED escaped
    ELSE Escapes /\ UNCHANGED <<result, context_result>>

\* A check of the start alone.
WindowInvalidStartOnly(s_dt, e_dt) == s_dt = NoDt

\* Line 53.
WindowInvalid(s_dt, e_dt) == s_dt = NoDt \/ e_dt = NoDt

\* Lines 52-57.
GetContextParse ==
    /\ pc = "ctx_enter"
    /\ start_dt' = parse_time(start_time)
    /\ end_dt' = parse_time(end_time)
    /\ IF RaisedDt \in {start_dt', end_dt'}
       THEN ContextRaises("OverflowError", "Python int too large to convert to C long")
       ELSE IF WindowInvalid(start_dt', end_dt')
       THEN ContextReturns(InvalidTimeResult) /\ UNCHANGED escaped
       ELSE pc' = "ctx_list_tools" /\ UNCHANGED <<result, context_result, escaped>>
    /\ UNCHANGED <<hostVars, entry, gemini_client, tools_answer, listing_answer, start_time, end_time,
                   events_to_schedule, sessionLog, pending, answers, llmCalls, calendar,
                   prompt, gemini_response, events_to_create, creation_result, events, idx,
                   created>>

\* A check that takes the listing tool for advertised.
ListingAdvertisedAlways(answer) == TRUE

\* Line 62 and 64: the names advertised, [] when the result has no tools.
ListingAdvertised(answer) == answer = "with_listing"

\* Lines 60-67: the call, the check, and the handler that only prints.
ListTools ==
    /\ pc = "ctx_list_tools"
    /\ sessionLog' = Append(sessionLog, Call("list_tools", "", NoneStr, NoneStr))
    /\ \E answer \in ListToolsAnswers :
          /\ tools_answer' = answer
          /\ IF answer = "raises"
             THEN pc' = "ctx_call" /\ UNCHANGED <<result, context_result>>
             ELSE IF ~ListingAdvertised(answer)
             THEN ContextReturns(ToolMissingResult)
             ELSE pc' = "ctx_call" /\ UNCHANGED <<result, context_result>>
    /\ UNCHANGED <<hostVars, entry, gemini_client, listing_answer, start_time, end_time, events_to_schedule,
                   pending, answers, llmCalls, calendar, start_dt, end_dt, prompt,
                   gemini_response, events_to_create, creation_result, events, idx,
                   created, escaped>>

\* Lines 69-116.
GetCalendarEvents ==
    /\ pc = "ctx_call"
    /\ sessionLog' = Append(sessionLog,
          Call("get_calendar_events", "", isoformat(start_dt), isoformat(end_dt)))
    /\ \E answer \in ListingAnswers :
          /\ listing_answer' = answer
          /\ IF answer.raises
             THEN ContextRaises("Exception", SessionErrorText)
             ELSE LET existing_events == CollectExisting(answer.content)
                      formatted_events == FormatEvents(existing_events)
                  IN  ContextReturns(ContextSuccess(start_dt, end_dt, existing_events,
                                                    formatted_events))
                      /\ UNCHANGED escaped
    /\ UNCHANGED <<hostVars, entry, gemini_client, tools_answer, start_time, end_time, events_to_schedule,
                   pending, answers, llmCalls, calendar, start_dt, end_dt, prompt,
                   gemini_response, events_to_create, creation_result, events, idx,
                   created>>

\* ---------------------------------------------------------- create_events
\* The committer hands r back: to the caller, or to schedule_complete.
CommitReturns(r) ==
    IF entry = "create_events"
    THEN Return(r) /\ UNCHANGED creation_result
    ELSE creation_result' = r /\ pc' = "sc_created" /\ UNCHANGED result

\* The loop walking the list from its end.
EnumerateReversed(evs, i) == evs[Len(evs) + 1 - i]

\* Line 123: the event the loop visits in its i-th round.
Enumerate(evs, i) == evs[i]

\* The call made with the strings of the event as they are.
PrepareCallUnparsed(name) ==
    [ok |-> TRUE, exc |-> "", text |-> "",
     call |-> Call("create_calendar_event", Elem(name).summary,
                   Elem(name).start_time, Elem(name).end_time)]

\* Lines 124-138 for one event: the arguments of the create call, or the
\* exception raised on the way (event.get on a non-dict, a missing key, a time
\* the parser rejects).
PrepareCall(name) ==
    LET event == Elem(name)
        s == ParserParse(event.start_time)
        e == ParserParse(event.end_time)
    IN  IF ~event.isDict
        THEN [ok |-> FALSE, exc |-> "AttributeError", text |-> "'str' object has no attribute 'get'",
              call |-> Unset]
        ELSE IF "start_time" \notin event.keys
        THEN [ok |-> FALSE, exc |-> "KeyError", text |-> "'start_time'", call |-> Unset]
        ELSE IF ~s.ok
        THEN [ok |-> FALSE, exc |-> s.exc, text |-> "Unknown string format", call |-> Unset]
        ELSE IF "end_time" \notin event.keys
        THEN [ok |-> FALSE, exc |-> "KeyError", text |-> "'end_time'", call |-> Unset]
        ELSE IF ~e.ok
        THEN [ok |-> FALSE, exc |-> e.exc, text |-> "Unknown string format", call |-> Unset]
        ELSE IF "summary" \notin event.keys
        THEN [ok |-> FALSE, exc |-> "KeyError", text |-> "'summary'", call |-> Unset]
        ELSE [ok |-> TRUE, exc |-> "", text |-> "",
              call |-> Call("create_calendar_event", event.summary,
                            isoformat(to_eastern(s.dt)), isoformat(to_eastern(e.dt)))]

\* A record that ends when it starts.
CreatedRecordNoSpan(call) ==
    [summary |-> call.summary, start_time |-> call.start_time, end_time |-> call.start_time]

\* Lines 153-157: the record of a created event.
CreatedRecord(call) ==
    [summary |-> call.summary, start_time |-> call.start_time, end_time |-> call.end_time]

\* The record put in front of the list.
CreatedInsertFirst(list, rec) == <<rec>> \o list

\* Line 153: created.append.
CreatedAppend(list, rec) == Append(list, rec)

\* A check of the answer that ignores isError.
CallFailedIgnored(answer) == FALSE

\* Line 143.
CallFailed(answer) == answer.isError

\* Lines 144-149: the text of the first text item, "Unknown error" without one.
RECURSIVE ErrorText(_)
ErrorText(content) ==
    IF content = <<>> THEN "Unknown error"
    ELSE IF Head(content).hasText THEN Head(content).text
    ELSE ErrorText(Tail(content))

\* A handler that deletes the bookings made so far.
RollbackCallsDelete(made) ==
    [k \in 1..Len(made) |->
        Call("delete_calendar_event", made[k].summary, made[k].start_time, made[k].end_time)]

\* Lines 161-162: the handler builds the failure result and issues no call on
\* the session; these are the calls it issues to undo the bookings made.
RollbackCalls(made) == <<>>

\* The calendar after it served a sequence of delete calls.
RECURSIVE Served(_, _)
Served(cal, calls) ==
    IF calls = <<>> THEN cal
    ELSE Served(SelectSeq(cal, LAMBDA b : b # CreatedRecord(Head(calls))), Tail(calls))

CreateFailedResult(msg) == [success |-> FALSE, error |-> <<"Failed to create events: ">> \o msg]

\* The except clause of create_events, entered with an exception of the kind.
CommitRaises(kind, msg) ==
    IF ExceptException(kind)
    THEN /\ sessionLog' = sessionLog \o RollbackCalls(created)
         /\ calendar' = Served(calendar, RollbackCalls(created))
         /\ CommitReturns(CreateFailedResult(msg))
         /\ UNCHANGED escaped
    ELSE /\ Escapes
         /\ UNCHANGED <<sessionLog, calendar, result, creation_result>>

\* Lines 123-140: one round of the loop up to the create call, or the return
\* after the last round (lines 159-160).
CreateEventsStep ==
    /\ pc = "ce_loop"
    /\ IF idx > Len(events)
       THEN /\ CommitReturns([success |-> TRUE, events |-> created])
            /\ UNCHANGED <<sessionLog, pending, calendar, escaped>>
       ELSE LET prepared == PrepareCall(Enumerate(events, idx))
            IN  IF prepared.ok
                THEN /\ sessionLog' = Append(sessionLog, prepared.call)
                     /\ pending' = Append(pending, prepared.call)
                     /\ pc' = "ce_await"
                     /\ UNCHANGED <<calendar, result, creation_result, escaped>>
                ELSE /\ CommitRaises(prepared.exc, <<prepared.text>>)
                     /\ UNCHANGED pending
    /\ UNCHANGED <<hostVars, entry, gemini_client, tools_answer, listing_answer,
                   start_time, end_time, events_to_schedule,
                   answers, llmCalls, start_dt, end_dt, context_result, prompt,
                   gemini_response, events_to_create, events, idx, created>>

\* Lines 140-157: the create call is answered.
CreateCallReturns ==
    /\ pc = "ce_await"
    /\ pending # <<>>
    /\ pending' = Tail(pending)
    /\ \E answer \in CreateAnswers :
          /\ answers' = Append(answers, answer)
          /\ IF answer.raises
             THEN /\ CommitRaises("Exception", <<SessionErrorText>>)
                  /\ UNCHANGED <<idx, created>>
             ELSE IF CallFailed(answer)
             THEN /\ CommitRaises("Exception",
                                  <<"Calendar event creation failed: ",
                                    ErrorText(answer.content)>>)
                  /\ UNCHANGED <<idx, created>>
             ELSE /\ calendar' = Append(calendar, CreatedRecord(Head(pending)))
                  /\ created' = CreatedAppend(created, CreatedRecord(Head(pending)))
                  /\ idx' = idx + 1
                  /\ pc' = "ce_loop"
                  /\ UNCHANGED <<sessionLog, result, creation_result, escaped>>
    /\ UNCHANGED <<hostVars, entry, gemini_client, tools_answer, listing_answer,
                   start_time, end_time, events_to_schedule,
                   llmCalls, start_dt, end_dt, context_result, prompt, gemini_response,
                   events_to_create, events>>

\* ------------------------------------------------------ schedule_complete
ConfigErrorResult ==
    [success |-> FALSE,
     error |-> <<"Gemini client not initialized. Check LLM_API_KEY environment variable and install google-genai package.">>]

NoValidResult == [success |-> FALSE, error |-> <<"No valid events generated by Gemini">>]

\* Line 256; the excerpt of the response is a single fragment here.
InvalidJsonResult ==
    [success |-> FALSE,
     error |-> <<"Gemini returned invalid JSON. Response: ", "<first 200 characters>", "...">>]

WorkflowFailedResult(text) ==
    [success |-> FALSE, error |-> <<"Scheduling workflow failed: ", text>>]

\* Lines 264-269.
DoneResult(created_events, existing_events) ==
    [success |-> TRUE,
     message |-> <<"Scheduling completed! Generated and created ",
                   ToString(Len(created_events)), " events in your calendar.">>,
     events_created |-> created_events,
     existing_events_considered |-> existing_events]

\* A failure result that reports only the events up to the failing one.
PartialFailedResultCut(creation, generated) ==
    [success |-> FALSE,
     error |-> <<"Events were generated by Gemini but creation failed: ">> \o creation.error,
     generated_events |-> SubSeq(generated, 1, Len(created) + 1)]

\* Lines 272-276.
PartialFailedResult(creation, generated) ==
    [success |-> FALSE,
     error |-> <<"Events were generated by Gemini but creation failed: ">> \o creation.error,
     generated_events |-> generated]

\* A check of the client that never fires.
ClientMissingNever(client) == FALSE

\* Line 174.
ClientMissing(client) == client = "None"

\* A check of the context that lets a failed fetch through.
ContextFailedIgnored(ctx) == FALSE

\* Line 181: not context_result.get("success").
ContextFailed(ctx) == ~ctx.success

\* A failed fetch reported in the words of the workflow, not the fetcher's.
ContextFailureWrapped(ctx) == [success |-> FALSE, error |-> <<"Scheduling workflow failed: ">> \o ctx.error]

\* Line 183.
ContextFailureReturn(ctx) == ctx

\* Line 185: context_result.get("existing_events", []).
ExistingOf(ctx) == IF "existing_events" \in DOMAIN ctx THEN ctx.existing_events ELSE <<>>

\* Lines 278-282: the except clause of schedule_complete.
ScheduleRaises(kind, text) ==
    IF ExceptException(kind)
    THEN Return(WorkflowFailedResult(text)) /\ UNCHANGED escaped
    ELSE Escapes /\ UNCHANGED result

\* Lines 168-177.
ScheduleCompleteEnter ==
    /\ pc = "sc_enter"
    /\ IF ClientMissing(gemini_client)
       THEN Return(ConfigErrorResult)
       ELSE pc' = "ctx_enter" /\ UNCHANGED result
    /\ UNCHANGED <<hostVars, entry, gemini_client, tools_answer, listing_answer,
                   start_time, end_time, events_to_schedule,
                   sessionLog, pending, answers, llmCalls, calendar, start_dt, end_dt,
                   context_result, prompt, gemini_response, events_to_create,
                   creation_result, events, idx, created, escaped>>

\* Lines 181-213: the check of the context and the prompt.  len(None) raises.
ScheduleContext ==
    /\ pc = "sc_context"
    /\ IF ContextFailed(context_result)
       THEN Return(ContextFailureReturn(context_result)) /\ UNCHANGED <<prompt, escaped>>
       ELSE IF events_to_schedule = "None"
       THEN /\ ScheduleRaises("TypeError", "object of type 'NoneType' has no len()")
            /\ UNCHANGED prompt
       ELSE /\ prompt' = [built |-> TRUE, window |-> <<start_time, end_time>>,
                          existing |-> ExistingOf(context_result)]
            /\ pc' = "sc_generate"
            /\ UNCHANGED <<result, escaped>>
    /\ UNCHANGED <<hostVars, entry, gemini_client, tools_answer, listing_answer,
                   start_time, end_time, events_to_schedule,
                   sessionLog, pending, answers, llmCalls, calendar, start_dt, end_dt,
                   context_result, gemini_response, events_to_create,
                   creation_result, events, idx, created>>

\* Lines 215-221: the one call of the language model.  Without a client the
\* attribute access on None raises before any call is made.
Generate ==
    /\ pc = "sc_generate"
    /\ IF gemini_client = "None"
       THEN /\ ScheduleRaises("AttributeError", "'NoneType' object has no attribute 'models'")
            /\ UNCHANGED <<llmCalls, gemini_response>>
       ELSE /\ llmCalls' = llmCalls + 1
            /\ \E answer \in LLMAnswers :
                  IF answer.raises
                  THEN /\ ScheduleRaises("Exception", "model unavailable")
                       /\ UNCHANGED gemini_response
                  ELSE IF ~answer.hasText
                  THEN /\ ScheduleRaises("AttributeError",
                                         "'NoneType' object has no attribute 'strip'")
                       /\ UNCHANGED gemini_response
                  ELSE /\ gemini_response' = answer.text
                       /\ pc' = "sc_parse"
                       /\ UNCHANGED <<result, escaped>>
    /\ tools_answer' = ""
    /\ listing_answer' = Unset
    /\ UNCHANGED <<hostVars, entry, gemini_client,
                   start_time, end_time, events_to_schedule,
                   sessionLog, pending, answers, calendar, start_dt, end_dt, context_result,
                   prompt, events_to_create, creation_result, events, idx, created>>

\* A check of the validated list that never fires.
NoneValidNever(valid_events) == FALSE

\* Line 249: not valid_events.
NoneValid(valid_events) == valid_events = <<>>

\* What "for ... in enumerate(x, 1)" visits for a parsed value x that is not an
\* array: the keys of an object, the characters of a string.
ItemsOf(value) ==
    IF Elem(value).isDict THEN <<"summary", "start_time", "end_time">> ELSE <<"s", "t", "r">>

\* Two entries with start_time and end_time share some time.
Overlaps(a, b) ==
    a.start_time.wall < b.end_time.wall /\ b.start_time.wall < a.end_time.wall

\* The validated proposals that overlap no existing event.
ProposalsWithoutConflict(valid_events) ==
    LET Span(name) == [start_time |-> strftime(parse_time(Elem(name).start_time)),
                       end_time |-> strftime(parse_time(Elem(name).end_time))]
        Free(name) == \A j \in 1..Len(ExistingOf(context_result)) :
                          ~Overlaps(Span(name), ExistingOf(context_result)[j])
    IN  SelectSeq(valid_events, Free)

\* The validated proposals, each given twice.
ProposalsTwice(valid_events) == valid_events \o valid_events

\* Line 258: create_events is given every validated proposal.
ProposalsToCommit(valid_events) == valid_events

\* Lines 223-258: parsing and validation, then the call of create_events.
ParseAndValidate ==
    /\ pc = "sc_parse"
    /\ \E parsed \in {ParseResponse(gemini_response)} :
           IF ~parsed.ok
           THEN /\ Return(InvalidJsonResult)
                /\ UNCHANGED <<events_to_create, events, escaped>>
           ELSE IF ~parsed.isArray /\ parsed.value = <<"7">>
           THEN /\ ScheduleRaises("TypeError", "'int' object is not iterable")
                /\ UNCHANGED <<events_to_create, events>>
           ELSE \E valid_events \in
                       {ValidEvents(IF parsed.isArray THEN parsed.value
                                    ELSE ItemsOf(parsed.value[1]))} :
                    IF NoneValid(valid_events)
                    THEN /\ Return(NoValidResult)
                         /\ UNCHANGED <<events_to_create, events, escaped>>
                    ELSE /\ events_to_create' = valid_events
                         /\ events' = ProposalsToCommit(valid_events)
                         /\ pc' = "ce_loop"
                         /\ UNCHANGED <<result, escaped>>
    /\ UNCHANGED <<hostVars, entry, gemini_client, tools_answer, listing_answer,
                   start_time, end_time, events_to_schedule,
                   sessionLog, pending, answers, llmCalls, calendar, start_dt, end_dt,
                   context_result, prompt, gemini_response, creation_result, idx, created>>

\* Lines 260-276.
ScheduleFinish ==
    /\ pc = "sc_created"
    /\ IF creation_result.success
       THEN Return(DoneResult(creation_result.events, ExistingOf(context_result)))
       ELSE Return(PartialFailedResult(creation_result, events_to_create))
    /\ UNCHANGED <<hostVars, entry, gemini_client, tools_answer, listing_answer,
                   start_time, end_time, events_to_schedule,
                   sessionLog, pending, answers, llmCalls, calendar, start_dt, end_dt,
                   context_result, prompt, gemini_response, events_to_create,
                   creation_result, events, idx, created, escaped>>

\* ------------------------------------------------------- the specification
Next ==
    \/ ScheduleCompleteEnter
    \/ GetContextParse
    \/ ListTools
    \/ GetCalendarEvents
    \/ ScheduleContext
    \/ Generate
    \/ ParseAndValidate
    \/ CreateEventsStep
    \/ CreateCallReturns
    \/ ScheduleFinish

Spec == Init /\ [][Next]_vars

\* Every await of the three methods returns or raises, so a call that can take
\* a step takes one.
LiveSpec == Init /\ [][Next]_vars /\ WF_vars(Next)

\* ------------------------------------------------------- the HTTP server
\* server.py, lines 97-125: the names of the custom tools.
CUSTOM_TOOLS == {"schedule_events_complete"}

\* Tool names a request can carry: the custom tool, a tool of the session,
\* and a name nobody has.
ToolNames == {"schedule_events_complete", "get_calendar_events", "no_such_tool"}

\* The ClientSession object made at line 148 of server.py.
TheSession == "ClientSession"

LifeOp(op, ok) == [op |-> op, ok |-> ok]

\* A cleanup that closes the contexts and leaves the fields as they were.
CleanupKeepsFields(m, session_exit_raises, client_exit_raises) ==
    [manager |-> m,
     ops |-> (IF m.session_context # "None"
              THEN <<LifeOp("session_context.__aexit__", ~session_exit_raises)>>
              ELSE <<>>)
             \o (IF m.client_context # "None"
                 THEN <<LifeOp("client_context.__aexit__", ~client_exit_raises)>>
                 ELSE <<>>)
             \o <<LifeOp("cleanup", TRUE)>>]

\* MCPSessionManager.cleanup, lines 169-183: the fields afterwards and the
\* exits attempted, closed by an entry that tells whether cleanup returned.
\* An exit that raises ends the method in its handler of lines 182-183, which
\* prints and returns.
Cleanup(m, session_exit_raises, client_exit_raises) ==
    LET exit_session == m.session_context # "None"
        after_session ==
            IF exit_session /\ ~session_exit_raises
            THEN [m EXCEPT !.session_context = "None", !.session = "None"]
            ELSE m
        exit_client ==
            /\ ~(exit_session /\ session_exit_raises)
            /\ m.client_context # "None"
        after_client ==
            IF exit_client /\ ~client_exit_raises
            THEN [after_session EXCEPT !.client_context = "None",
                                       !.read = "None", !.write = "None"]
            ELSE after_session
        raised == \/ exit_session /\ session_exit_raises
                  \/ exit_client /\ client_exit_raises
        caught == raised
    IN  [manager |-> after_client,
         ops |-> (IF exit_session
                  THEN <<LifeOp("session_context.__aexit__", ~session_exit_raises)>>
                  ELSE <<>>)
                 \o (IF exit_client
                     THEN <<LifeOp("client_context.__aexit__", ~client_exit_raises)>>
                     ELSE <<>>)
                 \o <<LifeOp("cleanup", raised => caught)>>]

\* The start of the process: lifespan up to its yield (server_http.py, lines
\* 13-20), create_session (server.py, lines 188-192) and
\* MCPSessionManager.create_session (lines 136-167).  A failure on the way
\* runs cleanup in the handler of line 164 and leaves lifespan before its
\* finally.
Startup ==
    /\ phase = "init"
    /\ \E fail_at \in {"none", "client_enter", "session_enter", "initialize"},
          x1 \in BOOLEAN, x2 \in BOOLEAN :
          LET entered == fail_at # "client_enter"
              m0 == [NoManager EXCEPT !.set = TRUE, !.client_context = "stdio_client"]
              m1 == IF entered
                    THEN [m0 EXCEPT !.read = "read", !.write = "write",
                                    !.session = TheSession,
                                    !.session_context = TheSession]
                    ELSE m0
              ops == <<LifeOp("client_context.__aenter__", entered)>>
                     \o (IF entered
                         THEN <<LifeOp("ClientSession", TRUE),
                                LifeOp("session_context.__aenter__",
                                       fail_at # "session_enter")>>
                         ELSE <<>>)
                     \o (IF fail_at \in {"none", "initialize"}
                         THEN <<LifeOp("initialize", fail_at = "none")>>
                         ELSE <<>>)
              first == Cleanup(m1, x1, x2)
          IN  IF fail_at = "none"
              THEN /\ session_manager' = m1
                   /\ mcp_session' = m1.session
                   /\ lifeLog' = ops
                   /\ phase' = "serving"
              ELSE /\ session_manager' = first.manager
                   /\ lifeLog' = ops \o first.ops
                   /\ phase' = "create_failed"
                   /\ UNCHANGED mcp_session
    /\ UNCHANGED <<http, httpLog, schedulerVars, clientVars>>

\* The end of the process: the finally of lifespan (lines 24-27) and
\* cleanup_session (server.py, lines 194-199), run once the requests in
\* progress have been answered, or after create_session failed.
Shutdown ==
    /\ phase \in {"serving", "create_failed"}
    /\ \A r \in Reqs : http[r].pc \in {"idle", "responded"}
    /\ \E x1 \in BOOLEAN, x2 \in BOOLEAN :
          LET done == Cleanup(session_manager, x1, x2)
          IN  /\ lifeLog' = lifeLog \o done.ops
              /\ session_manager' = NoManager
    /\ phase' = IF phase = "serving" THEN "stopped" ELSE "failed"
    /\ UNCHANGED <<mcp_session, http, httpLog, schedulerVars, clientVars>>

\* A session made for the request alone.
SessionPerRequest(r) == "ClientSession of the request"

\* Lines 161 and 179 of server_http.py: the handler passes the global.
SessionFor(r) == mcp_session

\* A call made on a session by the handler of request r.
SessionCall(r, op, name) ==
    [req |-> r, session |-> http[r].session, op |-> op, name |-> name,
     open |-> session_manager.session_context # "None"]

NoResult == [kind |-> "None"]

\* ToolCallResponse, lines 51-56.
ToolCallResponse(success, res, error) ==
    [status |-> 200, success |-> success, result |-> res, error |-> error]

HTTPException(status) ==
    [status |-> status, success |-> FALSE, result |-> NoResult, error |-> <<>>]

\* No name is looked up among the custom tools.
SessionFirst(tool_name) == FALSE

\* Lines 122 and 158 of server_http.py: the name is looked up among the
\* custom tools before the session is asked.
CustomFirst(tool_name) == tool_name \in CUSTOM_TOOLS

\* Lines 145-161 and 179: the request arrives and its handler starts.
Receive(r) ==
    /\ phase = "serving"
    /\ http[r].pc = "idle"
    /\ \E tool_name \in ToolNames, arguments \in {"dict", "None"} :
          LET req == [http[r] EXCEPT !.endpoint = "POST /tools/call",
                                     !.tool_name = tool_name, !.arguments = arguments]
          IN  http' = [http EXCEPT ![r] =
                 IF mcp_session = "None"
                 THEN [req EXCEPT !.pc = "responded", !.response = HTTPException(503)]
                 ELSE IF CustomFirst(tool_name) /\ arguments = "None"
                 THEN [req EXCEPT !.pc = "responded",
                          !.response = ToolCallResponse(FALSE, NoResult,
                              <<"'NoneType' object has no attribute 'get'">>)]
                 ELSE [req EXCEPT !.session = SessionFor(r),
                          !.pc = IF CustomFirst(tool_name) THEN "custom"
                                 ELSE "helper_list"]]
    /\ UNCHANGED <<phase, session_manager, mcp_session, lifeLog, httpLog,
                   schedulerVars, clientVars>>

\* The calls schedule_complete makes on its session, in order: lines 61, 69
\* and 140 of simple_scheduler.py.
WorkflowCallAt(position) ==
    CASE position = 1 -> [op |-> "list_tools", name |-> ""]
      [] position = 2 -> [op |-> "call_tool", name |-> "get_calendar_events"]
      [] position = 3 -> [op |-> "call_tool", name |-> "create_calendar_event"]

\* Results schedule_complete can return after that many calls.
WorkflowOutcomes(position) ==
    CASE position = 0 -> {ConfigErrorResult, InvalidTimeResult}
      [] position = 1 -> {ToolMissingResult}
      [] position = 2 ->
            {ContextExceptResult(SessionErrorText), NoValidResult, InvalidJsonResult,
             PartialFailedResult(CreateFailedResult(<<"Unknown string format">>),
                                 <<"badev">>)}
      [] position = 3 ->
            {DoneResult(<<CreatedRecord(PrepareCall("ev1").call)>>, <<>>),
             PartialFailedResult(
                 CreateFailedResult(<<"Calendar event creation failed: ", "Unknown error">>),
                 <<"ev1">>)}

\* schedule_events_complete (server.py, lines 89-94) running under
\* call_custom_tool (line 234): the workflow makes its next call on the
\* session it was given.
CustomCall(r) ==
    /\ http[r].pc = "custom"
    /\ http[r].position < 3
    /\ LET c == WorkflowCallAt(http[r].position + 1)
       IN  httpLog' = httpLog \cup {SessionCall(r, c.op, c.name)}
    /\ http' = [http EXCEPT ![r].position = @ + 1]
    /\ UNCHANGED <<phase, session_manager, mcp_session, lifeLog, schedulerVars, clientVars>>

\* Lines 163-176 of server_http.py.
CustomResponse(res) ==
    IF res.kind = "None"
    THEN ToolCallResponse(FALSE, NoResult, <<"Custom tool execution failed">>)
    ELSE ToolCallResponse(TRUE, res, <<>>)

\* The workflow returns; call_custom_tool hands its result back (server.py,
\* lines 234-239) and the handler answers.
CustomReturn(r) ==
    /\ http[r].pc = "custom"
    /\ \E outcome \in WorkflowOutcomes(http[r].position) :
          LET res == [kind |-> "dict", value |-> outcome]
          IN  http' = [http EXCEPT ![r].result = res,
                                   ![r].response = CustomResponse(res),
                                   ![r].pc = "responded"]
    /\ UNCHANGED <<phase, session_manager, mcp_session, lifeLog, httpLog,
                   schedulerVars, clientVars>>

\* What session.list_tools() can answer to call_tool: it raises, or it gives
\* the names advertised at that time.
ToolListings ==
    {[kind |-> "listing", raises |-> TRUE, tools |-> {}]}
    \cup {[kind |-> "listing", raises |-> FALSE, tools |-> t] :
            t \in {{}, {"get_calendar_events", "create_calendar_event"},
                   {"get_calendar_events", "schedule_events_complete"}}}

\* Lines 181-187 of server_http.py.
HelperFailedResponse ==
    ToolCallResponse(FALSE, NoResult, <<"MCP tool execution failed or tool not found">>)

\* The search skipped: every name counts as found.
ToolAssumed(tool_name, tools_result) == TRUE

\* Lines 23-30 of server.py: the listing did not raise and holds the name.
ToolFound(tool_name, tools_result) ==
    ~tools_result.raises /\ tool_name \in tools_result.tools

\* call_tool of server.py, lines 21-32 and 52-54: the listing and the search
\* for the tool name.
HelperList(r) ==
    /\ http[r].pc = "helper_list"
    /\ httpLog' = httpLog \cup {SessionCall(r, "list_tools", "")}
    /\ \E tools_result \in ToolListings :
          http' = [http EXCEPT ![r] =
             IF ~ToolFound(http[r].tool_name, tools_result)
             THEN [@ EXCEPT !.tools_result = tools_result, !.result = NoResult,
                            !.response = HelperFailedResponse, !.pc = "responded"]
             ELSE [@ EXCEPT !.tools_result = tools_result, !.pc = "helper_call"]]
    /\ UNCHANGED <<phase, session_manager, mcp_session, lifeLog, schedulerVars, clientVars>>

\* call_tool of server.py, lines 39-54, and lines 179-202 of server_http.py:
\* the call on the session and the answer of the handler.
HelperCall(r) ==
    /\ http[r].pc = "helper_call"
    /\ httpLog' = httpLog \cup {SessionCall(r, "call_tool", http[r].tool_name)}
    /\ \E raises \in BOOLEAN :
          http' = [http EXCEPT ![r] =
             IF raises
             THEN [@ EXCEPT !.result = NoResult, !.response = HelperFailedResponse,
                            !.pc = "responded"]
             ELSE [@ EXCEPT !.result = [kind |-> "mcp"],
                            !.response = ToolCallResponse(TRUE, [kind |-> "mcp"], <<>>),
                            !.pc = "responded"]]
    /\ UNCHANGED <<phase, session_manager, mcp_session, lifeLog, schedulerVars, clientVars>>

\* ToolInfo, lines 58-61: the description of a custom tool or of a tool of
\* the session.
ToolInfo(name, description) ==
    [status |-> 200, name |-> name, description |-> description]

\* str() of the HTTPException raised at line 140.
NotFoundText(tool_name) == <<"404: ", "Tool '", tool_name, "' not found">>

\* The HTTPException of line 142.
InspectFailed(text) ==
    [status |-> 500, detail |-> <<"Failed to inspect tool: ">> \o text]

\* What the handler of line 141 makes of the exception raised at line 140.
CaughtNotFound(tool_name) == InspectFailed(NotFoundText(tool_name))

\* inspect_tool_endpoint, lines 112-142: GET /tools/{tool_name}.
InspectToolEndpoint(r) ==
    /\ phase = "serving"
    /\ http[r].pc = "idle"
    /\ \E tool_name \in ToolNames, tools_result \in ToolListings :
          LET req == [http[r] EXCEPT !.endpoint = "GET /tools/{tool_name}",
                                     !.tool_name = tool_name, !.pc = "responded"]
              asked == [req EXCEPT !.session = SessionFor(r),
                                   !.tools_result = tools_result]
          IN  IF mcp_session = "None"
              THEN /\ http' = [http EXCEPT ![r] =
                                 [req EXCEPT !.response = HTTPException(503)]]
                   /\ UNCHANGED httpLog
              ELSE IF CustomFirst(tool_name)
              THEN /\ http' = [http EXCEPT ![r] =
                                 [req EXCEPT !.response = ToolInfo(tool_name, "custom")]]
                   /\ UNCHANGED httpLog
              ELSE /\ httpLog' = httpLog \cup
                          {[req |-> r, session |-> SessionFor(r), op |-> "list_tools",
                            name |-> "",
                            open |-> session_manager.session_context # "None"]}
                   /\ http' = [http EXCEPT ![r] =
                         [asked EXCEPT !.response =
                            IF tools_result.raises
                            THEN InspectFailed(<<SessionErrorText>>)
                            ELSE IF tool_name \in tools_result.tools
                            THEN ToolInfo(tool_name, "mcp")
                            ELSE CaughtNotFound(tool_name)]]
    /\ UNCHANGED <<phase, session_manager, mcp_session, lifeLog, schedulerVars, clientVars>>

\* inspect_specific_tool of web_client.py, lines 203-216: what the web client
\* returns for an answer to GET /tools/{tool_name}.
inspect_specific_tool(tool_name, response) ==
    IF response.status = 200 THEN [kind |-> "json", error |-> <<>>]
    ELSE IF response.status = 404
    THEN [kind |-> "error", error |-> <<"Tool '", tool_name, "' not found.">>]
    ELSE [kind |-> "error",
          error |-> <<"Failed to inspect tool: ", "HTTPStatusError">>]

ServerInit == ServerAtRest /\ SchedulerAtRest /\ ClientAtRest

ServerNext ==
    \/ Startup
    \/ Shutdown
    \/ \E r \in Reqs : Receive(r)
    \/ \E r \in Reqs : CustomCall(r)
    \/ \E r \in Reqs : CustomReturn(r)
    \/ \E r \in Reqs : HelperList(r)
    \/ \E r \in Reqs : HelperCall(r)
    \/ \E r \in Reqs : InspectToolEndpoint(r)

ServerSpec == ServerInit /\ [][ServerNext]_vars

\* -------------------------------------------------------- the web client
\* src/app/web_client.py.  A str of the client is the sequence of the words
\* str.split() finds in it.  The Flask server runs each POST /command in a
\* thread of its own on the one module-level client, so the calls of
\* handle_user_request interleave: at the awaits, and between the statements
\* of lines 179-186.

\* The texts a user sends, already stripped.
UserInputs == {<<"list">>, <<"inspect", "send_email">>, <<"hello">>}

\* The texts the language model and the tools answer with.
ResponseTexts == {<<>>, <<"ok">>}

\* The text of an exception.
ExceptionWords == <<"error">>

\* f"{n}:" of line 179.
NumberWord(n) == <<"1:", "2:", "3:", "4:", "5:", "6:", "7:", "8:", "9:">>[n]

\* user_input.lower() == 'list', line 142.
IsList(user_input) == user_input = <<"list">>

\* user_input.lower().startswith('inspect '), line 144.
IsInspect(user_input) == Len(user_input) >= 2 /\ user_input[1] = "inspect"

\* words[-n:]
LastWords(words, n) ==
    IF Len(words) <= n THEN words ELSE SubSeq(words, Len(words) - n + 1, Len(words))

\* A call of handle_user_request that has started and has not returned.
InProgress(r) == web[r].pc \notin {"idle", "done"}

\* The statement a call is at moves on.
Goto(r, label) == web' = [web EXCEPT ![r].pc = label]

\* The call returns response_data, and its locals are gone.
ReturnData(r, response_data) ==
    web' = [web EXCEPT ![r] = [NoCall EXCEPT !.pc = "done",
                                             !.response_data = response_data]]

\* command, lines 318-331: a POST /command with an input calls
\* handle_user_request.  The calls are numbered in the order they start.
Command(r) ==
    /\ web[r].pc = "idle"
    /\ \A earlier \in 1..(r - 1) : web[earlier].pc # "idle"
    /\ \E user_input \in UserInputs :
          web' = [web EXCEPT ![r] = [NoCall EXCEPT !.pc = "handle",
                                                   !.user_input = user_input]]
    /\ UNCHANGED <<conversation_history, interaction_count, schedulerVars, serverVars>>

\* Lines 142-146: the commands list and inspect return what the server says.
ListOrInspect(r) ==
    /\ web[r].pc = "handle"
    /\ IsList(web[r].user_input) \/ IsInspect(web[r].user_input)
    /\ ReturnData(r, "tools")
    /\ UNCHANGED <<conversation_history, interaction_count, schedulerVars, serverVars>>

\* Line 148: the awaited get_tool_and_arguments finds a tool or none.
GetToolAndArguments(r) ==
    /\ web[r].pc = "handle"
    /\ ~IsList(web[r].user_input) /\ ~IsInspect(web[r].user_input)
    /\ \E tool_found \in BOOLEAN : Goto(r, IF tool_found THEN "execute" ELSE "general")
    /\ UNCHANGED <<conversation_history, interaction_count, schedulerVars, serverVars>>

\* Lines 153-166: no tool, the language model answers or raises.
GeneralResponse(r) ==
    /\ web[r].pc = "general"
    /\ \/ \E text \in ResponseTexts :
             web' = [web EXCEPT ![r].pc = "append_interaction",
                                ![r].final_response_text = text,
                                ![r].response_data = "response"]
       \/ web' = [web EXCEPT ![r].pc = "append_interaction",
                             ![r].final_response_text = ExceptionWords,
                             ![r].response_data = "error"]
    /\ UNCHANGED <<conversation_history, interaction_count, schedulerVars, serverVars>>

\* Lines 167-176: the awaited execute_tool returns a response or an error.
ExecuteTool(r) ==
    /\ web[r].pc = "execute"
    /\ \/ \E text \in ResponseTexts :
             web' = [web EXCEPT ![r].pc = "append_interaction",
                                ![r].final_response_text = text,
                                ![r].response_data = "response"]
       \/ web' = [web EXCEPT ![r].pc = "append_interaction",
                             ![r].final_response_text = ExceptionWords,
                             ![r].response_data = "error"]
    /\ UNCHANGED <<conversation_history, interaction_count, schedulerVars, serverVars>>

\* Line 179.
AppendInteraction(r) ==
    /\ web[r].pc = "append_interaction"
    /\ conversation_history' =
          conversation_history \o <<"Interaction", NumberWord(interaction_count + 1)>>
    /\ web' = [web EXCEPT ![r].pc = "append_user", ![r].number = interaction_count + 1]
    /\ UNCHANGED <<interaction_count, schedulerVars, serverVars>>

\* Line 180.
AppendUser(r) ==
    /\ web[r].pc = "append_user"
    /\ conversation_history' = conversation_history \o <<"User:">> \o web[r].user_input
    /\ Goto(r, "append_model")
    /\ UNCHANGED <<interaction_count, schedulerVars, serverVars>>

\* Lines 181-182.
AppendModel(r) ==
    /\ web[r].pc = "append_model"
    /\ conversation_history' =
          IF web[r].final_response_text # <<>>
          THEN conversation_history \o <<"Model:">> \o web[r].final_response_text
          ELSE conversation_history
    /\ Goto(r, "count")
    /\ UNCHANGED <<interaction_count, schedulerVars, serverVars>>

\* Line 183.
CountInteraction(r) ==
    /\ web[r].pc = "count"
    /\ interaction_count' = interaction_count + 1
    /\ Goto(r, "total_words")
    /\ UNCHANGED <<conversation_history, schedulerVars, serverVars>>

\* Lines 185-190: count the words, compress when there are too many, else
\* return.
CountWords(r) ==
    /\ web[r].pc = "total_words"
    /\ IF Len(conversation_history) > max_context_words
       THEN Goto(r, "compress")
       ELSE ReturnData(r, web[r].response_data)
    /\ UNCHANGED <<conversation_history, interaction_count, schedulerVars, serverVars>>

\* compress_context, lines 274-286, and the return of line 190: the words
\* beyond the last max_context_words are dropped.  The method awaits nothing
\* and is taken as one step.
CompressContext(r) ==
    /\ web[r].pc = "compress"
    /\ \E words \in {conversation_history} :
          IF Len(words) > max_context_words
          THEN /\ conversation_history' = LastWords(words, max_context_words)
               /\ interaction_count' = 0
          ELSE UNCHANGED <<conversation_history, interaction_count>>
    /\ ReturnData(r, web[r].response_data)
    /\ UNCHANGED <<schedulerVars, serverVars>>

ClientInit == ClientAtRest /\ SchedulerAtRest /\ ServerAtRest

ClientNext ==
    \E r \in Reqs :
        \/ Command(r)
        \/ ListOrInspect(r)
        \/ GetToolAndArguments(r)
        \/ GeneralResponse(r)
        \/ ExecuteTool(r)
        \/ AppendInteraction(r)
        \/ AppendUser(r)
        \/ AppendModel(r)
        \/ CountInteraction(r)
        \/ CountWords(r)
        \/ CompressContext(r)

ClientSpec == ClientInit /\ [][ClientNext]_vars

\* ------------------------------------------------------------ properties
CreateCalls == SelectSeq(sessionLog, LAMBDA c : c.tool = "create_calendar_event")

ListingCalls == SelectSeq(sessionLog, LAMBDA c : c.tool = "get_calendar_events")

IsSet(local) == "unset" \notin DOMAIN local

\* C1: when the language-model client is not configured, schedule_complete
\* returns the configuration error in its first step, and no call was made on
\* the session or to the model.
C1_NoClientNoCalls ==
    (entry = "schedule_complete" /\ gemini_client = "None") =>
        /\ pc \in {"sc_enter", "done"}
        /\ sessionLog = <<>>
        /\ llmCalls = 0
        /\ pc = "done" => (~escaped /\ result = ConfigErrorResult)

C1_Witness ==
    /\ entry = "schedule_complete" /\ gemini_client = "None"
    /\ pc = "done" /\ result = ConfigErrorResult

\* The stage a position belongs to: 0 START, 1 FETCH_CONTEXT, 2 PROPOSE,
\* 3 COMMIT, 4 returned.
Stage(p) ==
    CASE p = "sc_enter" -> 0
      [] p \in {"ctx_enter", "ctx_list_tools", "ctx_call"} -> 1
      [] p \in {"sc_context", "sc_generate", "sc_parse"} -> 2
      [] p \in {"ce_loop", "ce_await", "sc_created"} -> 3
      [] p = "done" -> 4

C2_State ==
    entry = "schedule_complete" =>
        /\ Len(ListingCalls) <= 1
        /\ llmCalls <= 1
        /\ llmCalls = 1 =>
              /\ IsSet(context_result) /\ context_result.success
              /\ Len(ListingCalls) = 1
        /\ CreateCalls # <<>> =>
              /\ llmCalls = 1
              /\ events_to_create # <<>>
              /\ \A k \in 1..Len(events_to_create) : IsValidEvent(events_to_create[k])
              /\ sessionLog[Len(sessionLog) - Len(CreateCalls)].tool = "get_calendar_events"

C2_Step == entry = "schedule_complete" => Stage(pc') >= Stage(pc)

\* C2: in one schedule_complete call the stages follow each other without a
\* step back; the listing call and the generation call are made at most once,
\* generation only after a successful fetch, and the create calls only after
\* generation and validation succeeded (they are the last calls of the log).
C2_StageOrder == []C2_State /\ [][C2_Step]_vars

C2_Witness ==
    /\ entry = "schedule_complete" /\ pc = "done"
    /\ Len(ListingCalls) = 1 /\ llmCalls = 1 /\ Len(CreateCalls) = 2

\* C3: a schedule_complete call that ends before its commit stage (the
\* fetch failed, or the proposal was invalid JSON, had no valid element, or the
\* model call raised) has issued no create call and left the calendar as it
\* was; after a failed fetch the result is the fetcher's result itself.
C3_NoSideEffectBeforeCommit ==
    (entry = "schedule_complete" /\ pc = "done" /\ ~IsSet(creation_result)) =>
        /\ CreateCalls = <<>>
        /\ calendar = <<>>
        /\ answers = <<>>
        /\ (IsSet(context_result) /\ ~context_result.success) => result = context_result

C3_Witness ==
    /\ entry = "schedule_complete" /\ pc = "done"
    /\ IsSet(context_result) /\ ~context_result.success
    /\ result = ToolMissingResult

\* The create call the committer makes for an event of its input.
CallFor(name) ==
    Call("create_calendar_event", Elem(name).summary,
         isoformat(parse_time(Elem(name).start_time)),
         isoformat(parse_time(Elem(name).end_time)))

\* C4: the create calls issued are, in order, the calls for a prefix of the
\* input events; at most one call is outstanding, and a call is issued only
\* when every earlier call has been answered.
C4_InOrderOneAtATime ==
    /\ Len(CreateCalls) <= Len(events)
    /\ \A k \in 1..Len(CreateCalls) : CreateCalls[k] = CallFor(events[k])
    /\ Len(pending) <= 1
    /\ Len(answers) + Len(pending) = Len(CreateCalls)

C4_Witness ==
    /\ Len(CreateCalls) = 2 /\ Len(pending) = 1 /\ Len(answers) = 1
    /\ events[1] # events[2]

\* C5: once a create call is answered with isError, no further create call is
\* issued, create_events reports failure, and the error of that failure (and
\* of the schedule_complete result built from it) contains the text of the
\* first text item of the answer.
C5_AbortOnError ==
    \A n \in 1..Len(answers) :
        answers[n].isError =>
            /\ n = Len(answers)
            /\ Len(CreateCalls) = n
            /\ pending = <<>>
            /\ pc \in {"sc_created", "done"}
            /\ ~escaped
            /\ LET failure == IF pc = "done" THEN result ELSE creation_result
               IN  /\ failure.success = FALSE
                   /\ \A k \in 1..Len(answers[n].content) :
                         (/\ answers[n].content[k].hasText
                          /\ \A j \in 1..(k - 1) : ~answers[n].content[j].hasText)
                         => Contains(failure.error, answers[n].content[k].text)

C5_Witness ==
    /\ pc = "done"
    /\ Len(answers) = 1 /\ answers[1].isError /\ answers[1].content # <<>>
    /\ Len(events) = 2
    /\ Contains(result.error, "quota exceeded")

\* The committer failed because a create call was answered with isError.
CommitFailedOnError ==
    /\ pc = "done" /\ ~escaped
    /\ entry \in {"create_events", "schedule_complete"}
    /\ answers # <<>> /\ answers[Len(answers)].isError

\* Keys under which a result could carry the events already created.
CreatedKeys == {"events", "events_created", "created_events", "created"}

\* C6: when the committer fails on the N-th event, the failure result carries
\* the list of the N-1 events created before it.
C6_FailureCarriesCreated ==
    (CommitFailedOnError /\ Len(answers) >= 2) =>
        \E key \in CreatedKeys \cap DOMAIN result :
            /\ Len(result[key]) = Len(answers) - 1
            /\ result[key] = created

\* The session tools the workflow uses.
WorkflowTools == {"list_tools", "get_calendar_events", "create_calendar_event"}

\* C7: the events created stay in the calendar: the calendar holds exactly
\* the bookings of the create calls answered without error, also after the
\* failure of a later one, and no call other than listing and creating is
\* ever issued on the session.
C7_NoRollback ==
    /\ \A k \in 1..Len(sessionLog) : sessionLog[k].tool \in WorkflowTools
    /\ Len(calendar) = Len(created)
    /\ Len(calendar) <= Len(events)
    /\ \A k \in 1..Len(calendar) :
          /\ calendar[k] = CreatedRecord(CallFor(events[k]))
          /\ ~answers[k].isError /\ ~answers[k].raises

C7_Witness ==
    /\ entry = "schedule_complete" /\ pc = "done" /\ result.success = FALSE
    /\ Len(answers) = 2 /\ answers[2].isError
    /\ Len(calendar) = 1 /\ Len(events_to_create) = 2

\* The commit stage of schedule_complete was reached and failed.
CommitStageFailed ==
    /\ entry = "schedule_complete" /\ pc = "done" /\ ~escaped
    /\ IsSet(creation_result) /\ ~creation_result.success

\* C8: when the commit stage fails, schedule_complete returns a failure whose
\* generated_events is the whole validated list, the failing event and those
\* after it included.
C8_PartialFailedHasProposals ==
    CommitStageFailed =>
        /\ result.success = FALSE
        /\ "generated_events" \in DOMAIN result
        /\ result.generated_events = events_to_create
        /\ Len(result.generated_events) > Len(created)
        /\ \A k \in 1..Len(result.generated_events) :
              IsValidEvent(result.generated_events[k])

C8_Witness ==
    /\ CommitStageFailed
    /\ Len(created) = 0 /\ Len(result.generated_events) = 2
    /\ answers # <<>> /\ answers[1].isError

\* C9: a success result of schedule_complete lists one created event per
\* validated proposal, in order and with its summary, each created by a call
\* answered without error, and existing_events_considered is the list of
\* existing events put in the prompt.
C9_DoneResult ==
    (entry = "schedule_complete" /\ pc = "done" /\ ~escaped /\ result.success) =>
        /\ Len(result.events_created) = Len(events_to_create)
        /\ \A k \in 1..Len(events_to_create) :
              /\ result.events_created[k].summary = Elem(events_to_create[k]).summary
              /\ result.events_created[k] = CreatedRecord(CreateCalls[k])
        /\ Len(answers) = Len(events_to_create)
        /\ \A k \in 1..Len(answers) : ~answers[k].isError /\ ~answers[k].raises
        /\ prompt.built
        /\ result.existing_events_considered = prompt.existing

C9_Witness ==
    /\ entry = "schedule_complete" /\ pc = "done" /\ result.success
    /\ Len(result.events_created) = 2
    /\ result.events_created[1].summary # result.events_created[2].summary
    /\ result.existing_events_considered # <<>>

\* C10: whatever the session and the model do, each of the three methods
\* ends by returning a result with a boolean success, and with an error text
\* when success is false; no exception leaves the method.
C10_StructuredResult ==
    pc = "done" =>
        /\ ~escaped
        /\ IsSet(result)
        /\ result.success \in BOOLEAN
        /\ ~result.success => ("error" \in DOMAIN result /\ Len(result.error) >= 1)

C10_Witness ==
    /\ entry = "schedule_complete" /\ pc = "done"
    /\ result = WorkflowFailedResult("'int' object is not iterable")

\* The three keys an element must have to pass validation.
RequiredKeys == {"summary", "start_time", "end_time"}

\* An element of the model's answer is structurally valid.
WellFormed(name) ==
    name \in ElemNames /\ Elem(name).isDict /\ RequiredKeys \subseteq Elem(name).keys

\* schedule_complete ended after the model answered with a text t.
AnsweredWith(t) ==
    /\ entry = "schedule_complete" /\ pc = "done" /\ ~escaped
    /\ llmCalls = 1 /\ gemini_response = t

\* C11: when the answer of the model parses to a list (or to an object or a
\* string) with no structurally valid element, schedule_complete returns the
\* failure "No valid events generated"; a success result never has an empty
\* events_created.
C11_NoEmptySuccess ==
    (entry = "schedule_complete" /\ pc = "done" /\ ~escaped) =>
        /\ LET parsed == ParseResponse(gemini_response)
           IN  (/\ parsed.ok /\ parsed.value # <<"7">>
                /\ \A k \in 1..Len(parsed.value) :
                      ~(parsed.isArray /\ WellFormed(parsed.value[k])))
               => result = NoValidResult
        /\ result.success => result.events_created # <<>>

C11_Witness ==
    /\ AnsweredWith(<<"[", "nokey", "str", "]">>)
    /\ result = NoValidResult
    /\ sessionLog # <<>> /\ CreateCalls = <<>>

\* C12: the validated list is the list of the parsed elements that are
\* objects with the three keys, in their order; when at least one element
\* passes, the others are dropped and the call goes on to the commit stage.
C12_ValidationKeepsWellFormed ==
    (entry = "schedule_complete" /\ ~escaped /\ Stage(pc) >= 3
     /\ ParseResponse(gemini_response).ok /\ ParseResponse(gemini_response).isArray) =>
        LET parsed == ParseResponse(gemini_response).value
            kept == SelectSeq(parsed, WellFormed)
        IN  kept # <<>> =>
               /\ events_to_create = kept
               /\ events = kept
               /\ pc = "done" => IsSet(creation_result)

C12_Witness ==
    /\ AnsweredWith(<<"[", "nokey", "ev2", "]">>)
    /\ events_to_create = <<"ev2">>
    /\ result.success /\ Len(result.events_created) = 1

\* The tokens i..j of t are a JSON array of values.
HasArrayAt(t, i, j) ==
    /\ i < j /\ t[i] = "[" /\ t[j] = "]"
    /\ \A k \in (i + 1)..(j - 1) : t[k] \in JsonValues

\* Everything of t outside i..j is prose or a code fence.
ProseAround(t, i, j) ==
    /\ i > 1 \/ j < Len(t)
    /\ \A k \in (1..(i - 1)) \cup ((j + 1)..Len(t)) : t[k] \in {"prose"} \cup Fences

\* The array at i..j of the answer was parsed and its valid elements were
\* handed to the committer.
Extracted(t, i, j) ==
    /\ result # InvalidJsonResult
    /\ LET kept == SelectSeq(SubSeq(t, i + 1, j - 1), WellFormed)
       IN  IF kept = <<>> THEN result = NoValidResult
           ELSE events_to_create = kept /\ IsSet(creation_result)

SchedulingEnded == entry = "schedule_complete" /\ pc = "done" /\ ~escaped /\ llmCalls = 1

\* C13 as claimed: an array with prose or code fences anywhere around it is
\* extracted and parsed, and its valid elements go to the commit stage.
C13_Claimed ==
    SchedulingEnded =>
        \A i, j \in 1..Len(gemini_response) :
            (HasArrayAt(gemini_response, i, j) /\ ProseAround(gemini_response, i, j))
            => Extracted(gemini_response, i, j)

\* The fences of t are none, or one fence in front of the array at i..j that
\* the code splits on: it is the only fence before the array, and no json
\* fence follows the array unless the fence in front is the json fence.
FenceWraps(t, i, j) ==
    LET before == {k \in 1..(i - 1) : t[k] \in Fences}
        after == {k \in (j + 1)..Len(t) : t[k] \in Fences}
    IN  \/ before = {} /\ after = {}
        \/ /\ Cardinality(before) = 1
           /\ \/ \A k \in before : t[k] = "<fence json>"
              \/ \A k \in after : t[k] = "<fence>"

\* C13 (amended): an array surrounded by prose without brackets is extracted
\* and parsed, and its valid elements go to the commit stage, when the answer
\* has no code fence or exactly one fence in front of the array that wraps it.
C13_ArrayExtracted ==
    SchedulingEnded =>
        \A i, j \in 1..Len(gemini_response) :
            (/\ HasArrayAt(gemini_response, i, j)
             /\ ProseAround(gemini_response, i, j)
             /\ FenceWraps(gemini_response, i, j))
            => Extracted(gemini_response, i, j)

C13_Witness ==
    /\ AnsweredWith(<<"prose", "<fence json>", "[", "nokey", "ev2", "]", "<fence>", "prose">>)
    /\ events_to_create = <<"ev2">>
    /\ Len(CreateCalls) = 1

\* The result of get_scheduling_context, where it went.
ContextOutcome == IF entry = "get_scheduling_context" THEN result ELSE context_result

\* The listing call was answered with valid JSON that holds no booking.
ZeroBookings(answer) ==
    /\ ~answer.raises
    /\ \E k \in 1..Len(answer.content) :
          /\ answer.content[k].hasText
          /\ answer.content[k].json \in {"list", "dict_items", "dict_no_items"}
    /\ \A k \in 1..Len(answer.content) :
          /\ answer.content[k].hasText => answer.content[k].json # "invalid"
          /\ answer.content[k].events = <<>>

\* C14: when the calendar answers with zero bookings, get_scheduling_context
\* returns success with an empty existing_events; with a successful context
\* that has no existing event schedule_complete goes on to its proposal
\* stage instead of returning the context.
C14_EmptyCalendarProceeds ==
    /\ (IsSet(listing_answer) /\ ZeroBookings(listing_answer)) =>
          /\ IsSet(ContextOutcome)
          /\ ContextOutcome.success = TRUE
          /\ ContextOutcome.existing_events = <<>>
    /\ (/\ entry = "schedule_complete" /\ IsSet(context_result)
        /\ context_result.success /\ context_result.existing_events = <<>>) =>
          /\ Stage(pc) >= 2
          /\ pc \notin {"sc_context"} => (prompt.built \/ events_to_schedule = "None")
          /\ (pc = "done" /\ events_to_schedule = "list") => llmCalls = 1

C14_Witness ==
    /\ entry = "schedule_complete" /\ pc = "sc_generate"
    /\ IsSet(listing_answer) /\ listing_answer.content = <<TextItem("list", <<>>)>>
    /\ context_result.success /\ context_result.existing_events = <<>>
    /\ prompt.built /\ prompt.existing = <<>>

\* The string is one the time parser does not accept.
Unparseable(s) == s.kind # "iso"

\* C15: when the start or the end of the window does not parse,
\* get_scheduling_context returns the "Invalid time format" failure and no
\* call is ever made on the session.
C15_BadWindowNoCalls ==
    (entry # "create_events" /\ (Unparseable(start_time) \/ Unparseable(end_time))) =>
        /\ sessionLog = <<>>
        /\ tools_answer = "" /\ ~IsSet(listing_answer)
        /\ IsSet(ContextOutcome) => ContextOutcome = InvalidTimeResult
        /\ pc = "done" => (~escaped /\ result.success = FALSE)

C15_Witness ==
    /\ entry = "get_scheduling_context" /\ pc = "done"
    /\ ~Unparseable(start_time) /\ Unparseable(end_time)
    /\ result = InvalidTimeResult

\* C16: when list_tools answers without the listing tool, the fetcher returns
\* its "tool not available" failure and never issues get_calendar_events.
C16_ToolMissingNoListing ==
    tools_answer \in {"without_listing", "no_tools_attr"} =>
        /\ ListingCalls = <<>>
        /\ ~IsSet(listing_answer)
        /\ ContextOutcome = ToolMissingResult
        /\ pc = "done" => result = ToolMissingResult

C16_Witness ==
    /\ entry = "get_scheduling_context" /\ pc = "done"
    /\ tools_answer = "without_listing"
    /\ Len(sessionLog) = 1 /\ result = ToolMissingResult

\* The raw bookings of the listing answer, in the order the calendar gave them.
RawBookings == CollectExisting(listing_answer.content)

\* The fetcher returned after the listing call was answered.
ListingAnswered == IsSet(listing_answer) /\ ~listing_answer.raises /\ IsSet(ContextOutcome)

\* The booking has neither a timed nor an all-day start, or neither end.
MissingSpan(kind) ==
    \/ ~Truthy(RawEvent(kind).start.dateTime) /\ ~Truthy(RawEvent(kind).start.date)
    \/ ~Truthy(RawEvent(kind).end.dateTime) /\ ~Truthy(RawEvent(kind).end.date)

HasSpan(kind) == ~MissingSpan(kind)

StartOf(kind) ==
    IF Truthy(RawEvent(kind).start.dateTime) THEN RawEvent(kind).start.dateTime
    ELSE RawEvent(kind).start.date

EndOf(kind) ==
    IF Truthy(RawEvent(kind).end.dateTime) THEN RawEvent(kind).end.dateTime
    ELSE RawEvent(kind).end.date

\* The start and the end of the booking are there and parse.
ReadableSpan(kind) ==
    HasSpan(kind) /\ ~Unparseable(StartOf(kind)) /\ ~Unparseable(EndOf(kind))

\* existing_events is, entry by entry, the reduction of the given bookings.
ReducedFrom(existing, bookings) ==
    /\ Len(existing) = Len(bookings)
    /\ \A k \in 1..Len(bookings) :
          /\ existing[k].summary =
                (IF RawEvent(bookings[k]).hasSummary THEN RawEvent(bookings[k]).summary
                 ELSE "Event")
          /\ existing[k].start_time = strftime(parse_time(StartOf(bookings[k])))
          /\ existing[k].end_time = strftime(parse_time(EndOf(bookings[k])))

\* C17 as claimed: the fetcher succeeds and existing_events holds every
\* booking but those that miss their start or their end.
C17_Claimed ==
    ListingAnswered =>
        /\ ContextOutcome.success = TRUE
        /\ Len(ContextOutcome.existing_events) = Len(SelectSeq(RawBookings, HasSpan))

\* C17 (amended): a booking without start or end is skipped and the fetcher
\* still succeeds; existing_events holds, in the calendar's order, the
\* bookings that have a start and an end that parse.
C17_SkipsUnreadableBookings ==
    ListingAnswered =>
        /\ ContextOutcome.success = TRUE
        /\ ReducedFrom(ContextOutcome.existing_events, SelectSeq(RawBookings, ReadableSpan))

C17_Witness ==
    /\ ListingAnswered
    /\ RawBookings = <<"nostart", "allday">>
    /\ ContextOutcome.success
    /\ Len(ContextOutcome.existing_events) = 1
    /\ ContextOutcome.existing_events[1].summary = "Event"

\* Both time strings of a proposal parse.
Parseable(name) ==
    ~Unparseable(Elem(name).start_time) /\ ~Unparseable(Elem(name).end_time)

\* C18: no overlap is checked.  The create calls issued are the calls of the
\* validated proposals in order, whether or not a proposal overlaps an
\* existing event or another proposal; when every proposal parses and the
\* calendar accepts every call, the workflow succeeds with one created event
\* per proposal, and existing_events_considered is the fetched list.
C18_NoOverlapCheck ==
    (entry = "schedule_complete" /\ events_to_create # <<>>) =>
        /\ \A k \in 1..Len(CreateCalls) : CreateCalls[k] = CallFor(events_to_create[k])
        /\ (/\ pc = "done" /\ ~escaped
            /\ \A k \in 1..Len(events_to_create) : Parseable(events_to_create[k])
            /\ \A k \in 1..Len(answers) : ~answers[k].isError /\ ~answers[k].raises)
           => /\ result.success = TRUE
              /\ Len(CreateCalls) = Len(events_to_create)
              /\ Len(result.events_created) = Len(events_to_create)
              /\ result.existing_events_considered = context_result.existing_events

C18_Witness ==
    /\ entry = "schedule_complete" /\ pc = "done" /\ result.success
    /\ Len(result.events_created) = 2
    /\ Overlaps(result.events_created[1], result.events_created[2])
    /\ \E j \in 1..Len(result.existing_events_considered) :
          Overlaps(result.events_created[1], result.existing_events_considered[j])

\* C19: whenever get_scheduling_context has issued the listing call or has
\* returned success, the parsed window start is strictly before the parsed
\* window end.
C19_WindowStartBeforeEnd ==
    (ListingCalls # <<>> \/ (IsSet(ContextOutcome) /\ ContextOutcome.success)) =>
        start_dt.wall < end_dt.wall

\* C20: once the window strings went through _parse_time, a missing, empty or
\* malformed string has given null; no exception left _parse_time, so the
\* fetcher answered "Invalid time format" and not with a caught exception.
C20_ParseTimeNullNeverRaises ==
    (entry # "create_events" /\ pc \notin {"sc_enter", "ctx_enter"}
       /\ ~(pc = "done" /\ result = ConfigErrorResult)) =>
        /\ Unparseable(start_time) => start_dt = NoDt
        /\ Unparseable(end_time) => end_dt = NoDt
        /\ start_dt # RaisedDt /\ end_dt # RaisedDt
        /\ (Unparseable(start_time) \/ Unparseable(end_time)) =>
              /\ IsSet(ContextOutcome)
              /\ ContextOutcome = InvalidTimeResult

C20_Witness ==
    /\ entry = "get_scheduling_context" /\ pc = "done"
    /\ start_time = OverflowStr /\ end_time = EmptyStr
    /\ start_dt = NoDt /\ end_dt = NoDt
    /\ result = InvalidTimeResult

\* Hours a zone named in a time string is behind UTC.
HoursBehindUtc(zone) == IF zone = "-05:00" THEN 5 ELSE 0

\* The instant a zoned time string denotes, as an hour of UTC.
InstantOfStr(s) == s.wall + HoursBehindUtc(s.zone)

\* The instant of a value in the reference zone, as an hour of UTC.
InstantOfDt(dt) == dt.wall + 5

\* What the Time Normalizer must give for a valid string.
NormalizedFrom(dt, s) ==
    /\ dt.tz = "eastern"
    /\ s.zone = "none" => dt.wall = s.wall
    /\ s.zone # "none" => InstantOfDt(dt) = InstantOfStr(s)

\* C21: a valid time string normalizes to a value in the reference zone: with
\* no zone in the string the wall-clock fields are kept, with a zone the
\* value denotes the same instant.  This holds for the window the fetcher
\* parsed and for the times of every create call.
C21_ResultInReferenceZone ==
    /\ (~Unparseable(start_time) /\ start_dt # NoDt) => NormalizedFrom(start_dt, start_time)
    /\ (~Unparseable(end_time) /\ end_dt # NoDt) => NormalizedFrom(end_dt, end_time)
    /\ \A k \in 1..Len(CreateCalls) :
          /\ CreateCalls[k].start_time.zone = "-05:00"
          /\ CreateCalls[k].end_time.zone = "-05:00"
          /\ InstantOfStr(CreateCalls[k].start_time) =
                (IF Elem(events[k]).start_time.zone = "none"
                 THEN Elem(events[k]).start_time.wall + 5
                 ELSE InstantOfStr(Elem(events[k]).start_time))

C21_Witness ==
    /\ start_time = IsoStr(14, "Z") /\ start_dt = [wall |-> 9, tz |-> "eastern"]
    /\ end_time = IsoStr(17, "none") /\ end_dt = [wall |-> 17, tz |-> "eastern"]
    /\ \E k \in 1..Len(CreateCalls) : Elem(events[k]).start_time.zone = "Z"

\* C22: normalizing a valid string, writing the result as an ISO string and
\* normalizing that string gives the value of the first normalization.
C22_NormalizeIdempotent ==
    /\ start_dt # NoDt => parse_time(isoformat(parse_time(start_time))) = start_dt
    /\ end_dt # NoDt => parse_time(isoformat(parse_time(end_time))) = end_dt
    /\ \A k \in 1..Len(ListingCalls) :
          /\ parse_time(ListingCalls[k].start_time) = start_dt
          /\ parse_time(ListingCalls[k].end_time) = end_dt

C22_Witness ==
    /\ ListingCalls # <<>>
    /\ start_time = IsoStr(14, "Z")
    /\ ListingCalls[1].start_time = IsoStr(9, "-05:00")
    /\ parse_time(ListingCalls[1].start_time) = [wall |-> 9, tz |-> "eastern"]

\* C26: the listing call is issued only when list_tools has answered with a
\* list that advertises the listing tool.
C26_ListingOnlyWhenAdvertised ==
    (ListingCalls # <<>> /\ tools_answer # "") => tools_answer = "with_listing"

\* The n-th event given to create_events is the first whose start or end
\* does not parse; it and the events before it have the three keys.
FirstUnparseable(n) ==
    /\ n \in 1..Len(events)
    /\ WellFormed(events[n]) /\ ~Parseable(events[n])
    /\ \A k \in 1..(n - 1) : WellFormed(events[k]) /\ Parseable(events[k])

\* C27: when the n-th event of create_events is the first with an unparseable
\* start or end, no create call is issued for it or for a later event, the
\* result is a failure, and when the calendar accepted the n-1 calls before
\* it, their n-1 events are in the calendar.
C27_UnparseableStopsCommit ==
    \A n \in 1..Len(events) :
        (entry \in {"create_events", "schedule_complete"} /\ FirstUnparseable(n)) =>
            /\ Len(CreateCalls) < n
            /\ (pc = "done" /\ ~escaped) =>
                  /\ result.success = FALSE
                  /\ entry = "schedule_complete" => ~creation_result.success
                  /\ (\A k \in 1..Len(answers) : ~answers[k].isError /\ ~answers[k].raises)
                        => /\ Len(calendar) = n - 1
                           /\ \A k \in 1..(n - 1) :
                                 calendar[k] = CreatedRecord(CallFor(events[k]))

C27_Witness ==
    /\ entry = "schedule_complete" /\ pc = "done"
    /\ events = <<"ev1", "badev">>
    /\ Len(CreateCalls) = 1 /\ Len(calendar) = 1
    /\ result.success = FALSE

\* The instant a proposal's time string denotes once normalized: a string
\* without zone is read in the reference zone.
NormalInstant(s) == IF s.zone = "none" THEN s.wall + 5 ELSE InstantOfStr(s)

\* The span of a created event lies within the parsed window.
InWindow(rec) ==
    /\ InstantOfDt(start_dt) <= InstantOfStr(rec.start_time)
    /\ InstantOfStr(rec.end_time) <= InstantOfDt(end_dt)

\* The span the model proposed lies within the parsed window.
ProposedInWindow(name) ==
    /\ InstantOfDt(start_dt) <= NormalInstant(Elem(name).start_time)
    /\ NormalInstant(Elem(name).end_time) <= InstantOfDt(end_dt)

SucceededWorkflow == entry = "schedule_complete" /\ pc = "done" /\ ~escaped /\ result.success

\* C28 as claimed: every event created by a successful schedule_complete
\* has a span within the requested window.
C28_Claimed ==
    SucceededWorkflow =>
        \A k \in 1..Len(result.events_created) : InWindow(result.events_created[k])

\* C28 (amended): every event created by a successful schedule_complete has
\* the span of its validated proposal, in the reference zone; it lies within
\* the requested window when the proposal does.
C28_CreatedSpanIsProposedSpan ==
    SucceededWorkflow =>
        \A k \in 1..Len(result.events_created) :
            LET rec == result.events_created[k]
                proposal == Elem(events_to_create[k])
            IN  /\ rec.start_time.zone = "-05:00" /\ rec.end_time.zone = "-05:00"
                /\ InstantOfStr(rec.start_time) = NormalInstant(proposal.start_time)
                /\ InstantOfStr(rec.end_time) = NormalInstant(proposal.end_time)
                /\ ProposedInWindow(events_to_create[k]) => InWindow(rec)

C28_Witness ==
    /\ SucceededWorkflow
    /\ start_dt.wall = 9 /\ end_dt.wall = 17
    /\ events_to_create = <<"ev1", "ev2">>
    /\ InWindow(result.events_created[1])
    /\ ~InWindow(result.events_created[2])

\* The listing call was answered without content, or with text items none of
\* which is valid JSON.
NoJsonContent(answer) ==
    /\ ~answer.raises
    /\ \A k \in 1..Len(answer.content) :
          answer.content[k].hasText /\ answer.content[k].json = "invalid"

\* C29: a listing answer without content or whose text is not valid JSON
\* counts as zero bookings: the fetcher returns success with an empty
\* existing_events and calendar_access_working true, and schedule_complete
\* goes on to its proposal stage; calendar_access_working is true in every
\* success result of the fetcher.
C29_NoJsonIsZeroBookings ==
    /\ (IsSet(listing_answer) /\ NoJsonContent(listing_answer)) =>
          /\ IsSet(ContextOutcome)
          /\ ContextOutcome.success = TRUE
          /\ ContextOutcome.existing_events = <<>>
          /\ ContextOutcome.calendar_access_working = TRUE
          /\ entry = "schedule_complete" =>
                /\ Stage(pc) >= 2
                /\ pc # "sc_context" => (prompt.built \/ events_to_schedule = "None")
    /\ (IsSet(ContextOutcome) /\ ContextOutcome.success) =>
          ContextOutcome.calendar_access_working = TRUE

C29_Witness ==
    /\ entry = "schedule_complete" /\ pc = "sc_generate"
    /\ IsSet(listing_answer)
    /\ listing_answer.content = <<TextItem("invalid", <<>>)>>
    /\ context_result.success /\ context_result.calendar_access_working
    /\ prompt.built /\ prompt.existing = <<>>

\* The three outcomes of schedule_complete.
OutcomeDone == result.success = TRUE

OutcomePartialFailed ==
    /\ result.success = FALSE
    /\ IsSet(creation_result) /\ ~creation_result.success

OutcomeFailed ==
    /\ result.success = FALSE
    /\ ~IsSet(creation_result)

\* schedule_complete has returned a result.
Terminated == pc = "done" /\ ~escaped /\ IsSet(result)

\* The calls schedule_complete has made stay within one listing call, one
\* generation call and one create call per validated proposal, and a returned
\* result is exactly one of the three outcomes.
C30_State ==
    entry = "schedule_complete" =>
        /\ Len(ListingCalls) <= 1
        /\ llmCalls <= 1
        /\ Len(CreateCalls) <= Len(events_to_create)
        /\ Terminated =>
              /\ OutcomeDone \/ OutcomePartialFailed \/ OutcomeFailed
              /\ ~(OutcomeDone /\ OutcomePartialFailed)
              /\ ~(OutcomeDone /\ OutcomeFailed)
              /\ ~(OutcomePartialFailed /\ OutcomeFailed)
              /\ OutcomeDone => IsSet(creation_result) /\ creation_result.success

\* C30: when every external call returns or raises, every schedule_complete
\* call ends with a result that is exactly one of FAILED, PARTIAL_FAILED and
\* DONE, after at most one listing call, one generation call and one create
\* call per validated proposal.
C30_Terminates ==
    /\ []C30_State
    /\ (entry = "schedule_complete") ~> Terminated

C30_Witness ==
    /\ entry = "schedule_complete" /\ Terminated /\ OutcomeDone
    /\ Len(ListingCalls) = 1 /\ llmCalls = 1
    /\ Len(CreateCalls) = 2 /\ Len(events_to_create) = 2

\* The entries of lifeLog for one operation.
LifeOpsOf(op) == SelectSeq(lifeLog, LAMBDA o : o.op = op)

\* C23: one session object is made, at the start of the process; each of its
\* contexts is closed at most once, and a process that served is shut down
\* with one exit of the session; every call a request makes goes to that one
\* session, while it is open, and a request does nothing to a session but
\* list its tools and call a tool.
C23_OneSessionBorrowed ==
    /\ Len(LifeOpsOf("ClientSession")) <= 1
    /\ phase = "init" => lifeLog = <<>>
    /\ phase \in {"serving", "stopped"} =>
          /\ Len(LifeOpsOf("ClientSession")) = 1
          /\ mcp_session = TheSession
    /\ phase = "serving" => Len(LifeOpsOf("session_context.__aexit__")) = 0
    /\ phase = "stopped" => Len(LifeOpsOf("session_context.__aexit__")) = 1
    /\ Len(SelectSeq(LifeOpsOf("session_context.__aexit__"), LAMBDA o : o.ok)) <= 1
    /\ Len(SelectSeq(LifeOpsOf("client_context.__aexit__"), LAMBDA o : o.ok)) <= 1
    /\ \A c \in httpLog :
          /\ c.session = TheSession
          /\ c.open
          /\ c.op \in {"list_tools", "call_tool"}

C23_Witness ==
    /\ phase = "stopped"
    /\ \E c \in httpLog : c.req = 1 /\ c.name = "create_calendar_event"
    /\ \E c \in httpLog : c.req = 2 /\ c.name = "get_calendar_events" /\ c.op = "call_tool"
    /\ http[1].tool_name = "schedule_events_complete"
    /\ http[2].tool_name = "get_calendar_events"

\* C25: the success flag of the answer to POST /tools/call for
\* schedule_events_complete is true only when the workflow returned its DONE
\* result; when the workflow returned a failure, the answer has success false
\* and an error.
C25_SuccessOnlyWhenDone ==
    \A r \in Reqs :
        (http[r].pc = "responded" /\ http[r].tool_name = "schedule_events_complete"
           /\ http[r].result.kind = "dict") =>
            /\ http[r].response.success => http[r].result.value.success
            /\ ~http[r].result.value.success =>
                  /\ ~http[r].response.success
                  /\ http[r].response.error # <<>>

\* The conversation state changes in this step.
ConversationMutated ==
    \/ conversation_history' # conversation_history
    \/ interaction_count' # interaction_count

\* C24: conversation_history and interaction_count change only while no
\* other call of handle_user_request is in progress, and two calls that are in
\* progress together never wrote the same interaction number.
C24_MutatedBetweenRequestsOnly ==
    /\ [][ConversationMutated => Cardinality({r \in Reqs : InProgress(r)}) <= 1]_vars
    /\ [](\A r1, r2 \in Reqs :
            (r1 # r2 /\ InProgress(r1) /\ InProgress(r2)
               /\ web[r1].number > 0 /\ web[r2].number > 0) =>
                web[r1].number # web[r2].number)

\* An answered GET /tools/{tool_name} for a name that is no custom tool and
\* that the session, which answered, does not advertise.
InspectedUnknown(r) ==
    /\ http[r].pc = "responded"
    /\ http[r].endpoint = "GET /tools/{tool_name}"
    /\ http[r].tool_name \notin CUSTOM_TOOLS
    /\ http[r].tools_result.kind = "listing"
    /\ ~http[r].tools_result.raises
    /\ http[r].tool_name \notin http[r].tools_result.tools

\* C31: inspecting a name that is neither a custom tool nor an advertised tool
\* is answered with status 404, and the web client reports
\* "Tool '<name>' not found.".
C31_UnknownToolIs404 ==
    \A r \in Reqs :
        InspectedUnknown(r) =>
            /\ http[r].response.status = 404
            /\ inspect_specific_tool(http[r].tool_name, http[r].response).error
                 = <<"Tool '", http[r].tool_name, "' not found.">>

\* A request of POST /tools/call that went to the generic call_tool helper.
ViaHelper(r) ==
    /\ http[r].endpoint = "POST /tools/call"
    /\ http[r].tool_name \notin CUSTOM_TOOLS
    /\ http[r].tools_result.kind = "listing"

\* The calls of session.call_tool made for request r.
ToolCallsOf(r) == {c \in httpLog : c.req = r /\ c.op = "call_tool"}

\* C32: the call_tool helper calls session.call_tool only for a name the
\* listing it just got holds; for a name that is absent, and when the listing
\* or the call raises, it returns None and the handler answers from that
\* return value.
C32_HelperCallsAdvertisedOnly ==
    \A r \in Reqs :
        ViaHelper(r) =>
            /\ \A c \in ToolCallsOf(r) :
                  /\ ~http[r].tools_result.raises
                  /\ c.name = http[r].tool_name
                  /\ c.name \in http[r].tools_result.tools
            /\ (http[r].tools_result.raises
                  \/ http[r].tool_name \notin http[r].tools_result.tools) =>
                  /\ ToolCallsOf(r) = {}
                  /\ http[r].pc = "responded"
                  /\ http[r].result = NoResult
            /\ http[r].pc = "responded" =>
                  \/ http[r].result = NoResult /\ http[r].response = HelperFailedResponse
                  \/ /\ http[r].result.kind = "mcp"
                     /\ http[r].response.success
                     /\ ToolCallsOf(r) # {}

\* One request named a tool the listing does not hold, the listing of the
\* other raised; both got None and neither reached session.call_tool.
C32_Witness ==
    /\ ViaHelper(1) /\ ViaHelper(2)
    /\ http[1].pc = "responded" /\ http[2].pc = "responded"
    /\ ~http[1].tools_result.raises
    /\ http[1].tool_name = "get_calendar_events"
    /\ http[1].tools_result.tools = {}
    /\ http[2].tools_result.raises
    /\ http[1].result = NoResult /\ http[2].result = NoResult
    /\ ToolCallsOf(1) = {} /\ ToolCallsOf(2) = {}

\* C33: a name in CUSTOM_TOOLS is served by the custom tool: no call_tool on
\* the session carries that name, POST /tools/call never hands it to the
\* call_tool helper, and GET /tools/{tool_name} answers with the custom tool's
\* description without a call on the session.
C33_CustomToolsFirst ==
    /\ \A c \in httpLog : c.op = "call_tool" => c.name \notin CUSTOM_TOOLS
    /\ \A r \in Reqs :
          (http[r].tool_name \in CUSTOM_TOOLS /\ http[r].endpoint = "POST /tools/call") =>
              /\ http[r].pc \in {"custom", "responded"}
              /\ http[r].tools_result.kind = "unset"
              /\ http[r].pc = "responded" =>
                    \/ http[r].result.kind = "dict"
                    \/ http[r].arguments = "None"
    /\ \A r \in Reqs :
          (http[r].tool_name \in CUSTOM_TOOLS
             /\ http[r].endpoint = "GET /tools/{tool_name}") =>
              /\ http[r].response = ToolInfo(http[r].tool_name, "custom")
              /\ \A c \in httpLog : c.req # r

\* The session advertises a tool named like the custom tool (a listing the
\* helper got for another request says so); the custom tool was inspected and
\* answered from CUSTOM_TOOLS.
C33_Witness ==
    /\ http[1].endpoint = "GET /tools/{tool_name}"
    /\ http[1].tool_name = "schedule_events_complete"
    /\ http[1].pc = "responded"
    /\ http[1].response.description = "custom"
    /\ http[2].tools_result.kind = "listing"
    /\ ~http[2].tools_result.raises
    /\ "schedule_events_complete" \in http[2].tools_result.tools

\* The positions of lifeLog where a cleanup ended.
CleanupEnds == {k \in 1..Len(lifeLog) : lifeLog[k].op = "cleanup"}

\* An entry of lifeLog for a close of a context.
IsExit(o) == o.op \in {"session_context.__aexit__", "client_context.__aexit__"}

\* The exits of the cleanup that ended at position k: the exits that come
\* right before k.
ExitsOfCleanup(k) ==
    {j \in 1..(k - 1) : \A i \in j..(k - 1) : IsExit(lifeLog[i])}

\* Both contexts were closed by the cleanup that ended at k, and both closes
\* succeeded.
BothClosed(k) ==
    /\ \E j \in ExitsOfCleanup(k) :
          lifeLog[j].op = "session_context.__aexit__" /\ lifeLog[j].ok
    /\ \E j \in ExitsOfCleanup(k) :
          lifeLog[j].op = "client_context.__aexit__" /\ lifeLog[j].ok

\* C35: cleanup returns without raising, closes the session context before
\* the client context, and after a cleanup that closed both, the five fields
\* are None and the next cleanup closes nothing.
C35_CleanupIdempotent ==
    /\ \A k \in CleanupEnds : lifeLog[k].ok
    /\ \A k \in CleanupEnds : \A i, j \in ExitsOfCleanup(k) :
          (lifeLog[i].op = "session_context.__aexit__"
             /\ lifeLog[j].op = "client_context.__aexit__") => i < j
    /\ (phase = "create_failed" /\ BothClosed(Len(lifeLog))) =>
          /\ session_manager.session = "None"
          /\ session_manager.session_context = "None"
          /\ session_manager.client_context = "None"
          /\ session_manager.read = "None"
          /\ session_manager.write = "None"
    /\ \A k1, k2 \in CleanupEnds :
          (k1 < k2 /\ BothClosed(k1)) => ExitsOfCleanup(k2) = {}

\* create_session failed at initialize, its cleanup closed both contexts, and
\* the cleanup of lifespan after it closed nothing.
C35_Witness ==
    /\ phase = "failed"
    /\ Cardinality(CleanupEnds) = 2
    /\ \E k \in CleanupEnds : BothClosed(k) /\ k + 1 \in CleanupEnds

\* The lifespan has ended and its cleanup has returned.
CleanedUp == phase \in {"stopped", "failed"}

\* C36: once cleanup has returned, a client context that was entered has been
\* closed, and no context was exited whose __aenter__ did not complete.
C36_EnteredContextsExited ==
    /\ (CleanedUp /\ \E i \in 1..Len(lifeLog) :
                        lifeLog[i] = LifeOp("client_context.__aenter__", TRUE)) =>
          \E j \in 1..Len(lifeLog) : lifeLog[j].op = "client_context.__aexit__"
    /\ \A j \in 1..Len(lifeLog) :
          /\ lifeLog[j].op = "client_context.__aexit__" =>
                \E i \in 1..(j - 1) : lifeLog[i] = LifeOp("client_context.__aenter__", TRUE)
          /\ lifeLog[j].op = "session_context.__aexit__" =>
                \E i \in 1..(j - 1) : lifeLog[i] = LifeOp("session_context.__aenter__", TRUE)

\* Call r of handle_user_request returns in this step, after lines 179-190.
Completes(r) ==
    /\ web[r].pc \in {"total_words", "compress"}
    /\ web'[r].pc = "done"

\* C34: when a call that is no list or inspect command returns,
\* conversation_history has at most max_context_words words; if the limit was
\* exceeded the history is its last max_context_words words and
\* interaction_count is 0, otherwise interaction_count is one more than it
\* was when the call began to record its interaction.
C34_CompletedCallBoundsHistory ==
    [][\A r \in Reqs :
          Completes(r) =>
              /\ Len(conversation_history') <= max_context_words
              /\ IF web[r].pc = "compress"
                 THEN /\ conversation_history' =
                            LastWords(conversation_history, max_context_words)
                      /\ interaction_count' = 0
                 ELSE interaction_count' = web[r].number]_vars

====
